---- MODULE Spec2Model ----
(***************************************************************************)
(* Model of the recipe resolution engine of src/lib/craftingTree.js:       *)
(* the graph index (processDAGData), the recursive resolver (buildTree),   *)
(* the bounded LRU memo (LRUCache / recipeCache) and the asynchronous      *)
(* entry point buildCraftingTree, split at its await points.               *)
(*                                                                         *)
(* Strings are sequences of character codes, so that toLowerCase, the      *)
(* whitespace replacement and the id formatting are computed, not assumed. *)
(* Objects that the code shares by reference (trees, ingredient arrays)    *)
(* are modelled by reference: trees live in `heap`, an ingredient array is *)
(* named by the pair id under which edgeMap owns it.                       *)
(***************************************************************************)
EXTENDS Naturals, Integers, Sequences, FiniteSets, TLC

VARIABLES
    dagFile,          \* content served at /data/crafting_dag.json
    cachedDAGData,    \* module variable cachedDAGData: Null or the parsed data
    nodeMap,          \* Map id -> node, in insertion order
    edgeMap,          \* Map pairId -> ingredient array, `result_${pairId}` -> id
    recipeResults,    \* Map result id -> array of pair ids
    recipeIngredients,\* Map node id -> array of (references to) ingredient arrays
    recipeCache,      \* the LRUCache instance: [cache, keys, maxSize]
    idCounter,        \* module variable idCounter
    heap,             \* tree objects: object id -> [val, touched]
    pc,               \* per request: where its buildCraftingTree call stands
    arg,              \* per request: targetName
    ret,              \* per request: object id of the returned tree (0: none)
    built,            \* per request: did the last completed call run buildTree
    again,            \* per request: was the name requested before this call
    firstRet,         \* history: name -> tree first returned for it
    recency,          \* history: cache keys ordered by their latest access
    dropped,          \* history: keys the latest cache operation removed
    threw,            \* per request: did the last completed call reject
    stack,            \* the frames of the buildTree calls in progress
    bres,             \* the result of the outermost buildTree call
    selectedItem,     \* page.tsx: the state selectedItem of Home
    elementNodeState, \* recipeFrame.js: state and refs of one ElementNode
    searchBarState,   \* searchBar.js: state and refs of SearchBar
    recipeFrameState  \* recipeFrame.js: state of RecipeFrame

vars == <<dagFile, cachedDAGData, nodeMap, edgeMap, recipeResults,
          recipeIngredients, recipeCache, idCounter, heap, pc, arg, ret,
          built, again, firstRet, recency, dropped, threw, stack, bres,
          selectedItem, elementNodeState, searchBarState, recipeFrameState>>

\* the state of the components of the page
ui == <<selectedItem, elementNodeState, searchBarState, recipeFrameState>>

\* the state of lib/craftingTree.js and of its callers
lib == <<dagFile, cachedDAGData, nodeMap, edgeMap, recipeResults,
         recipeIngredients, recipeCache, idCounter, heap, pc, arg, ret,
         built, again, firstRet, recency, dropped, threw, stack, bres>>

build == <<stack, bres>>

index == <<nodeMap, edgeMap, recipeResults, recipeIngredients>>

-----------------------------------------------------------------------------
(* Bounds of the model *)

MaxCycle == 7       \* longest recipe cycle among the input graphs
MaxTargets == 2     \* leading nodes of a graph whose names are requested
NumFlat == 52       \* nodes of the flat graph that fills the cache
MaxCap == 2         \* largest maxSize of an LRUCache exercised on its own
NumKeys == 3        \* keys used on an LRUCache exercised on its own
ChainLen == 20      \* length of the chain of nested recipes
MaxStack == 10      \* frames of buildTree that the model can hold

\* the callers that may have a buildCraftingTree call in flight
Procs == {1, 2}

-----------------------------------------------------------------------------
(* Strings *)

Null == [null |-> TRUE]

Dash == <<45>>
Fire == <<70, 105, 114, 101>>
Water == <<87, 97, 116, 101, 114>>
Earth == <<69, 97, 114, 116, 104>>
Wind == <<87, 105, 110, 100>>
UnknownPrefix == <<117, 110, 107, 110, 111, 119, 110, 45>>   \* "unknown-"
BasicPrefix == <<98, 97, 115, 105, 99, 45>>                  \* "basic-"

IsUpper(c) == c >= 65 /\ c <= 90
IsSpace(c) == c \in {9, 10, 11, 12, 13, 32}

\* String.prototype.toLowerCase on the ASCII range
ToLowerCase(s) == [i \in 1..Len(s) |-> IF IsUpper(s[i]) THEN s[i] + 32 ELSE s[i]]

\* s.replace(/\s+/g, '-'): every maximal run of whitespace becomes one dash
RECURSIVE ReplaceSpaces(_)
ReplaceSpaces(s) ==
    IF s = <<>> THEN <<>>
    ELSE IF IsSpace(Head(s))
         THEN IF Len(s) > 1 /\ IsSpace(s[2])
              THEN ReplaceSpaces(Tail(s))
              ELSE Dash \o ReplaceSpaces(Tail(s))
         ELSE <<Head(s)>> \o ReplaceSpaces(Tail(s))

\* decimal digits of a number, as the template literal prints it
RECURSIVE ToDigits(_)
ToDigits(n) ==
    IF n < 10 THEN <<48 + n>> ELSE ToDigits(n \div 10) \o <<48 + (n % 10)>>

\* a faulty id: the counter is read but not incremented
GenerateUniqueIdSameCount(baseName, ctr) ==
    [id  |-> ReplaceSpaces(ToLowerCase(baseName)) \o Dash \o ToDigits(ctr + 1),
     ctr |-> ctr]

\* generateUniqueId: increments the counter ctr and formats the id
GenerateUniqueId(baseName, ctr) ==
    [id  |-> ReplaceSpaces(ToLowerCase(baseName)) \o Dash \o ToDigits(ctr + 1),
     ctr |-> ctr + 1]

BASIC_ELEMENTS == {Fire, Water, Earth, Wind}

MAX_TREE_DEPTH == 6

-----------------------------------------------------------------------------
(* Arrays and insertion-ordered maps *)

\* Array.prototype.filter(k => k !== key)
Filter(s, key) == SelectSeq(s, LAMBDA k : k # key)

\* Array.prototype.indexOf, zero-based, -1 when absent
IndexOf(s, x) ==
    IF \E i \in 1..Len(s) : s[i] = x
    THEN (CHOOSE i \in 1..Len(s) : s[i] = x /\ \A j \in 1..(i - 1) : s[j] # x) - 1
    ELSE -1

\* nodeMap is a sequence of [key, val] entries in insertion order
OMapHas(m, k) == \E i \in 1..Len(m) : m[i].key = k
OMapGet(m, k) == m[CHOOSE i \in 1..Len(m) : m[i].key = k].val
OMapSet(m, k, v) ==
    IF OMapHas(m, k)
    THEN [i \in 1..Len(m) |-> IF m[i].key = k THEN [key |-> k, val |-> v] ELSE m[i]]
    ELSE Append(m, [key |-> k, val |-> v])

\* function maps (iteration order never observed)
MapSet(m, k, v) == (k :> v) @@ m
MapDelete(m, k) == [x \in DOMAIN m \ {k} |-> m[x]]
EmptyMap == <<>>

-----------------------------------------------------------------------------
(* LRUCache *)

\* constructor(maxSize)
NewLRUCache(maxSize) == [cache |-> EmptyMap, maxSize |-> maxSize, keys |-> <<>>]

LRUHas(c, key) == key \in DOMAIN c.cache

\* a faulty get: a hit does not move the key
LRUGetNoRefresh(c, key) ==
    IF ~LRUHas(c, key) THEN [c |-> c, value |-> 0]
    ELSE [c |-> c, value |-> c.cache[key]]

\* a faulty get: the key is pushed without being taken out of the list first
LRUGetNoFilter(c, key) ==
    IF ~LRUHas(c, key) THEN [c |-> c, value |-> 0]
    ELSE [c |-> [c EXCEPT !.keys = Append(c.keys, key)], value |-> c.cache[key]]

\* get: the cache after the call and the value returned (0: undefined)
LRUGet(c, key) ==
    IF ~LRUHas(c, key) THEN [c |-> c, value |-> 0]
    ELSE [c |-> [c EXCEPT !.keys = Append(Filter(c.keys, key), key)],
          value |-> c.cache[key]]

\* a faulty set: at capacity nothing is removed
LRUMakeRoomNoEviction(c, key) ==
    IF LRUHas(c, key) THEN [c EXCEPT !.keys = Filter(c.keys, key)] ELSE c

\* a faulty set: at capacity the most recently used key is removed
LRUMakeRoomEvictNewest(c, key) ==
    IF LRUHas(c, key) THEN [c EXCEPT !.keys = Filter(c.keys, key)]
    ELSE IF Len(c.keys) >= c.maxSize
         THEN IF c.keys = <<>> THEN c
              ELSE [c EXCEPT !.keys = SubSeq(c.keys, 1, Len(c.keys) - 1),
                             !.cache = MapDelete(c.cache, c.keys[Len(c.keys)])]
         ELSE c

\* the first two branches of set: reposition an existing key, or evict
LRUMakeRoom(c, key) ==
    IF LRUHas(c, key) THEN [c EXCEPT !.keys = Filter(c.keys, key)]
    ELSE IF Len(c.keys) >= c.maxSize
         THEN IF c.keys = <<>> THEN c
              ELSE [c EXCEPT !.keys = Tail(c.keys),
                             !.cache = MapDelete(c.cache, Head(c.keys))]
         ELSE c

LRUSet(c, key, value) ==
    LET r == LRUMakeRoom(c, key)
    IN [r EXCEPT !.keys = Append(r.keys, key),
                 !.cache = MapSet(r.cache, key, value)]

LRUClear(c) == [c EXCEPT !.cache = EmptyMap, !.keys = <<>>]

RECIPE_CACHE_SIZE == 50

-----------------------------------------------------------------------------
(* processDAGData *)

PairKey(pairId) == <<"", pairId>>
ResultKey(pairId) == <<"result_", pairId>>

EmptyIndex ==
    [nodeMap |-> <<>>, edgeMap |-> EmptyMap, recipeResults |-> EmptyMap,
     recipeIngredients |-> EmptyMap]

\* data.nodes.forEach(node => nodeMap.set(node.id, node)): a key that is
\* set again keeps its place and takes the last value set; new keys follow in
\* the order in which they are first set
AddNodes(nm, nodes) ==
    LET Sets(id) == {j \in 1..Len(nodes) : nodes[j].id = id}
        LastSet(id) == nodes[CHOOSE j \in Sets(id) : \A k \in Sets(id) : k <= j]
        firsts == SelectSeq([j \in 1..Len(nodes) |-> j],
                            LAMBDA j : /\ ~OMapHas(nm, nodes[j].id)
                                       /\ \A k \in 1..(j - 1) : nodes[k].id # nodes[j].id)
    IN [i \in 1..Len(nm) |->
            IF Sets(nm[i].key) = {} THEN nm[i]
            ELSE [key |-> nm[i].key, val |-> LastSet(nm[i].key)]]
       \o [i \in 1..Len(firsts) |->
            [key |-> nodes[firsts[i]].id, val |-> LastSet(nodes[firsts[i]].id)]]

\* the values of field f of the relationships of one type that have value x
\* in field g, in the order of the array
Collected(rels, type, g, x, f) ==
    LET hits == SelectSeq(rels, LAMBDA rel : rel.type = type /\ rel[g] = x)
    IN [i \in 1..Len(hits) |-> hits[i][f]]

\* data.relationships.forEach (lines 113-139): every PART_OF appends its start
\* to the array of its end, every RESULTS_IN appends its start to the array
\* of its end and sets `result_${start}` to its end
AddRelationships(idx, rels) ==
    LET pairIds == {rels[i].end : i \in {j \in 1..Len(rels) : rels[j].type = "PART_OF"}}
        results == {i \in 1..Len(rels) : rels[i].type = "RESULTS_IN"}
        resultIds == {rels[i].end : i \in results}
        OldArray(m, k) == IF k \in DOMAIN m THEN m[k] ELSE <<>>
        LastResult(pairId) ==
            rels[CHOOSE i \in results :
                    /\ rels[i].start = pairId
                    /\ \A j \in results : rels[j].start = pairId => j <= i].end
    IN [idx EXCEPT
          !.edgeMap =
              [k \in {ResultKey(rels[i].start) : i \in results} |->
                    LastResult(k[2])]
              @@ [k \in {PairKey(id) : id \in pairIds} |->
                    OldArray(idx.edgeMap, k)
                        \o Collected(rels, "PART_OF", "end", k[2], "start")]
              @@ idx.edgeMap,
          !.recipeResults =
              [id \in resultIds |->
                    OldArray(idx.recipeResults, id)
                        \o Collected(rels, "RESULTS_IN", "end", id, "start")]
              @@ idx.recipeResults]

\* a faulty derivation: the length of the ingredient array is not checked
IngredientSetsOfAnyLength(em, pairs) ==
    SelectSeq(pairs, LAMBDA pairId : PairKey(pairId) \in DOMAIN em)

\* a faulty derivation: arrays of one or two entries are kept
IngredientSetsOfAtMostTwo(em, pairs) ==
    SelectSeq(pairs, LAMBDA pairId :
                        /\ PairKey(pairId) \in DOMAIN em
                        /\ Len(em[PairKey(pairId)]) <= 2)

\* a faulty derivation: arrays of two or more entries are kept
IngredientSetsOfAtLeastTwo(em, pairs) ==
    SelectSeq(pairs, LAMBDA pairId :
                        /\ PairKey(pairId) \in DOMAIN em
                        /\ Len(em[PairKey(pairId)]) >= 2)

\* lines 150-158: keep (a reference to) each pair's ingredient array that has
\* exactly two entries
IngredientSetsOf(em, pairs) ==
    SelectSeq(pairs, LAMBDA pairId :
                        /\ PairKey(pairId) \in DOMAIN em
                        /\ Len(em[PairKey(pairId)]) = 2)

\* lines 142-162: nodeMap.forEach sets recipeIngredients for every node that
\* has an entry in recipeResults
DeriveIngredients(idx) ==
    [id \in {idx.nodeMap[i].key : i \in 1..Len(idx.nodeMap)} \cap DOMAIN idx.recipeResults |->
        IngredientSetsOf(idx.edgeMap, idx.recipeResults[id])]
    @@ idx.recipeIngredients

\* the entries of an array before its first null entry
BeforeNull(rels) ==
    SubSeq(rels, 1, (CHOOSE i \in 1..Len(rels) :
                        rels[i] = Null /\ \A j \in 1..(i - 1) : rels[j] # Null) - 1)

\* a faulty indexing: the relationships are read before the nodes
ProcessDAGDataEdgesFirst(idx, data) ==
    IF "relationships" \notin DOMAIN data THEN idx
    ELSE LET withEdges == AddRelationships(idx, data.relationships)
         IN IF "nodes" \notin DOMAIN data THEN withEdges
            ELSE LET withNodes == [withEdges EXCEPT
                                      !.nodeMap = AddNodes(idx.nodeMap, data.nodes)]
                 IN [withNodes EXCEPT !.recipeIngredients = DeriveIngredients(withNodes)]

\* The tables after processDAGData(data).  data.nodes.forEach and
\* data.relationships.forEach raise a TypeError when the array is missing:
\* the function is left at that point (loadDAGData catches the exception)
\* and the tables keep what was written before.
\* An entry of data.relationships that is null raises a TypeError at rel.type
\* (line 115): the relationships before it have been indexed, and lines
\* 141-162 are not reached.
ProcessDAGData(idx, data) ==
    IF "nodes" \notin DOMAIN data THEN idx
    ELSE LET withNodes == [idx EXCEPT !.nodeMap = AddNodes(idx.nodeMap, data.nodes)]
         IN IF "relationships" \notin DOMAIN data THEN withNodes
            ELSE IF \E i \in 1..Len(data.relationships) : data.relationships[i] = Null
            THEN AddRelationships(withNodes, BeforeNull(data.relationships))
            ELSE LET withEdges == AddRelationships(withNodes, data.relationships)
                 IN [withEdges EXCEPT
                        !.recipeIngredients = DeriveIngredients(withEdges)]

\* the array a reference of recipeIngredients points to, as it is now
IngredientSet(idx, ref) == idx.edgeMap[PairKey(ref)]

-----------------------------------------------------------------------------
(* CraftTree nodes.  A field the code leaves out is marked absent:         *)
(* hasIngredients = FALSE (no ingredients field), isDepthLimited = FALSE,  *)
(* originalId = -1 (the sentinel trees carry no originalId).               *)

TreeNode(id, name, isBasic, originalId, hasIngredients, ingredients, isDepthLimited) ==
    [id |-> id, name |-> name, isBasic |-> isBasic, originalId |-> originalId,
     hasIngredients |-> hasIngredients, ingredients |-> ingredients,
     isDepthLimited |-> isDepthLimited]

\* a faulty leaf: the truncation is not marked
DepthLimitedLeafUnmarked(id, name, elementId) ==
    TreeNode(id, name, TRUE, elementId, FALSE, <<>>, FALSE)

\* lines 186-192: the node returned past the maximum depth
DepthLimitedLeaf(id, name, elementId) ==
    TreeNode(id, name, TRUE, elementId, FALSE, <<>>, TRUE)

\* lines 219-224: a basic element, or one without a recipe set
SimpleNode(id, name, isBasic, elementId) ==
    TreeNode(id, name, isBasic, elementId, FALSE, <<>>, FALSE)

\* a faulty node: the node that carries the ingredients is flagged basic
RecipeNodeFlaggedBasic(id, name, elementId, bestIngredients) ==
    TreeNode(id, name, TRUE, elementId, TRUE, bestIngredients, FALSE)

\* lines 263-269: the element with the children of its best recipe
RecipeNode(id, name, elementId, bestIngredients) ==
    TreeNode(id, name, FALSE, elementId, TRUE, bestIngredients, FALSE)

\* lines 277-282: the element exists but no recipe resolved
NoRecipeLeaf(id, name, elementId) ==
    TreeNode(id, name, TRUE, elementId, FALSE, <<>>, FALSE)

\* lines 323-328 and 336-341: the fallback trees of buildCraftingTree
SentinelNode(prefix, id, targetName) ==
    TreeNode(prefix \o id, targetName, TRUE, -1, TRUE, <<>>, FALSE)

\* lines 213-214 (an undefined name is in no list)
IsBasicElement(elementNode) ==
    (elementNode.named /\ elementNode.name \in BASIC_ELEMENTS) \/ elementNode.depth = 0

\* line 237: the candidate loop stops here without trying the candidate
CandidateCapReached(ingredientSets, ingredientSet) ==
    Len(ingredientSets) > 5 /\ IndexOf(ingredientSets, ingredientSet) >= 3

\* a faulty comparison: a candidate that resolves as many children replaces
\* the best
IsBetterRecipeOrEqual(childTrees, bestIngredients) ==
    Len(childTrees) >= Len(bestIngredients)

\* line 247
IsBetterRecipe(childTrees, bestIngredients) == Len(childTrees) > Len(bestIngredients)

\* a faulty depth guard: one level too late
DepthExceededLate(depth, maxDepth) == depth > maxDepth + 1

\* line 180
DepthExceeded(depth, maxDepth) == depth > maxDepth

\* a faulty cycle guard: no element is ever taken as visited
AlreadyVisitedNever(visited, elementId) == FALSE

\* line 196
AlreadyVisited(visited, elementId) == elementId \in visited

-----------------------------------------------------------------------------
(* buildTree.  A call returns [ok, node, ctr]: ok = FALSE stands for the   *)
(* null result, ctr is idCounter after the call.  `visited` is the set the *)
(* call receives; the code hands every child its own copy of the set with  *)
(* elementId added, and the add/delete on that copy is seen by no one else.*)

NoNode == TreeNode(<<>>, <<>>, TRUE, -1, FALSE, <<>>, FALSE)
NullResult(ctr) == [ok |-> FALSE, threw |-> FALSE, node |-> NoNode, ctr |-> ctr]
NodeResult(node, ctr) == [ok |-> TRUE, threw |-> FALSE, node |-> node, ctr |-> ctr]
\* the call does not return: a TypeError leaves it
ThrowResult(ctr) == [ok |-> FALSE, threw |-> TRUE, node |-> NoNode, ctr |-> ctr]

\* lines 185 and 207: elementNode.properties.name raises when the node has
\* no properties object
NameThrows(elementNode) == ~elementNode.props

\* line 66: baseName.toLowerCase() raises when the name is undefined
IdThrows(elementNode) == ~elementNode.named

RECURSIVE BuildTree(_, _, _, _, _, _)
RECURSIVE BuildChildren(_, _, _, _, _, _, _)
RECURSIVE TryRecipes(_, _, _, _, _, _, _, _)

\* lines 242-244: ingredientSet.map(buildTree(...)).filter(Boolean)
BuildChildren(idx, ingredientSet, i, visited, depth, maxDepth, ctr) ==
    IF i > Len(ingredientSet) THEN [trees |-> <<>>, ctr |-> ctr, threw |-> FALSE]
    ELSE LET r == BuildTree(idx, ingredientSet[i], visited, depth, maxDepth, ctr)
             rest == BuildChildren(idx, ingredientSet, i + 1, visited, depth, maxDepth, r.ctr)
         IN IF r.threw THEN [trees |-> <<>>, ctr |-> r.ctr, threw |-> TRUE]
            ELSE [trees |-> IF r.ok THEN <<r.node>> \o rest.trees ELSE rest.trees,
                  ctr |-> rest.ctr, threw |-> rest.threw]

\* lines 235-255: the loop over the candidate recipes, from candidate i on
TryRecipes(idx, ingredientSets, i, visited, depth, maxDepth, bestIngredients, ctr) ==
    IF i > Len(ingredientSets)
    THEN [best |-> bestIngredients, ctr |-> ctr, threw |-> FALSE]
    ELSE IF CandidateCapReached(ingredientSets, ingredientSets[i])
    THEN [best |-> bestIngredients, ctr |-> ctr, threw |-> FALSE]
    ELSE LET ch == BuildChildren(idx, IngredientSet(idx, ingredientSets[i]), 1,
                                 visited, depth + 1, maxDepth, ctr)
             best == IF IsBetterRecipe(ch.trees, bestIngredients)
                     THEN ch.trees ELSE bestIngredients
         IN IF ch.threw THEN [best |-> bestIngredients, ctr |-> ch.ctr, threw |-> TRUE]
            ELSE IF Len(ch.trees) = 2
            THEN [best |-> best, ctr |-> ch.ctr, threw |-> FALSE]
            ELSE TryRecipes(idx, ingredientSets, i + 1, visited, depth, maxDepth,
                            best, ch.ctr)

BuildTree(idx, elementId, visited, depth, maxDepth, ctr) ==
    IF DepthExceeded(depth, maxDepth)
    THEN IF ~OMapHas(idx.nodeMap, elementId) THEN NullResult(ctr)
         ELSE LET elementNode == OMapGet(idx.nodeMap, elementId)
                  elementName == elementNode.name
                  g == GenerateUniqueId(elementName, ctr)
              IN IF NameThrows(elementNode) THEN ThrowResult(ctr)
                 ELSE IF IdThrows(elementNode) THEN ThrowResult(g.ctr)
                 ELSE NodeResult(DepthLimitedLeaf(g.id, elementName, elementId), g.ctr)
    ELSE IF AlreadyVisited(visited, elementId) THEN NullResult(ctr)
    ELSE IF ~OMapHas(idx.nodeMap, elementId) THEN NullResult(ctr)
    ELSE LET elementNode == OMapGet(idx.nodeMap, elementId)
             elementName == elementNode.name
             isBasic == IsBasicElement(elementNode)
         IN IF NameThrows(elementNode) THEN ThrowResult(ctr)
            ELSE IF isBasic \/ elementId \notin DOMAIN idx.recipeIngredients
            THEN LET g == GenerateUniqueId(elementName, ctr)
                 IN IF IdThrows(elementNode) THEN ThrowResult(g.ctr)
                    ELSE NodeResult(SimpleNode(g.id, elementName, isBasic, elementId),
                                    g.ctr)
            ELSE LET ingredientSets == idx.recipeIngredients[elementId]
                     tried == IF Len(ingredientSets) > 0
                              THEN TryRecipes(idx, ingredientSets, 1,
                                              visited \cup {elementId}, depth, maxDepth,
                                              <<>>, ctr)
                              ELSE [best |-> <<>>, ctr |-> ctr, threw |-> FALSE]
                     g == GenerateUniqueId(elementName, tried.ctr)
                 IN IF tried.threw THEN ThrowResult(tried.ctr)
                    ELSE IF IdThrows(elementNode) THEN ThrowResult(g.ctr)
                    ELSE IF Len(tried.best) > 0
                    THEN NodeResult(RecipeNode(g.id, elementName, elementId, tried.best),
                                    g.ctr)
                    ELSE NodeResult(NoRecipeLeaf(g.id, elementName, elementId), g.ctr)

\* lines 290-297: the first node, in insertion order, with exactly this name
\* The loop stops at the first node that matches or that has no properties
\* object: reading properties.name of the latter raises a TypeError.
Thrown == [thrown |-> TRUE]

NameIs(node, name) == node.named /\ node.name = name

FindElementByName(nm, name) ==
    LET Stops(i) == NameThrows(nm[i].val) \/ NameIs(nm[i].val, name)
    IN IF \E i \in 1..Len(nm) : Stops(i)
       THEN LET k == CHOOSE i \in 1..Len(nm) :
                        Stops(i) /\ \A j \in 1..(i - 1) : ~Stops(j)
            IN IF NameThrows(nm[k].val) THEN Thrown ELSE nm[k].val
       ELSE Null

-----------------------------------------------------------------------------
(* The heap of tree objects.  A tree object is [val, touched]: val is the  *)
(* nested record, touched tells whether a caller has written to it.        *)

NewObj(h) == CHOOSE n \in 1..(Cardinality(DOMAIN h) + 1) : n \notin DOMAIN h

\* a fresh object holding v
Alloc(h, v) == [heap |-> (NewObj(h) :> v) @@ h, obj |-> NewObj(h)]

\* a faulty clone: no copy is made, the object itself is handed on
StructuredCloneShared(h, o) == [heap |-> h, obj |-> o]

\* structuredClone(o): a fresh object with a deep copy of o's content
StructuredClone(h, o) == Alloc(h, h[o])

Range(f) == {f[x] : x \in DOMAIN f}

\* objects no one refers to any more are dropped
Collect(h, live) == [o \in DOMAIN h \cap live |-> h[o]]

-----------------------------------------------------------------------------
(* Input graphs *)

\* a node {id, properties: {name, depth}}; props and named tell whether the
\* node has a properties object and whether the properties hold a name
Node(id, name, depth) ==
    [id |-> id, name |-> name, depth |-> depth, props |-> TRUE, named |-> TRUE]
\* a node {id, properties: {depth}}: its name is undefined
NodeNoName(id, depth) ==
    [id |-> id, name |-> <<>>, depth |-> depth, props |-> TRUE, named |-> FALSE]
\* a node {id}: reading properties.name of it raises a TypeError
NodeNoProperties(id) ==
    [id |-> id, name |-> <<>>, depth |-> -1, props |-> FALSE, named |-> FALSE]
\* the value of a field that the object does not have (rel.start, rel.end)
Undefined == 0

PartOf(ingredientId, pairId) == [type |-> "PART_OF", start |-> ingredientId, end |-> pairId]
ResultsIn(pairId, resultId) == [type |-> "RESULTS_IN", start |-> pairId, end |-> resultId]
Recipe(a, b, pairId, resultId) ==
    <<PartOf(a, pairId), PartOf(b, pairId), ResultsIn(pairId, resultId)>>

RECURSIVE Concat(_)
Concat(ss) ==
    IF ss = <<>> THEN <<>>
    ELSE Concat(SubSeq(ss, 1, Len(ss) - 1)) \o ss[Len(ss)]

Steam == <<83, 116, 101, 97, 109>>
NameB == <<66>>
NameX == <<88>>
NameY == <<89>>
NameE(i) == <<69>> \o ToDigits(i)
NameN(i) == <<78>> \o ToDigits(i)

\* Steam from Fire and Water (the example of the specification)
SteamGraph ==
    [nodes |-> <<Node(3, Steam, 1), Node(1, Fire, 0), Node(2, Water, 0)>>,
     relationships |-> Recipe(1, 2, 101, 3)]

\* a cycle of n elements E0 <- (E1, B), ..., E(n-1) <- (E0, B); B is basic.
\* n = 1 is the self-referential recipe E0 <- (E0, B).
CycleGraph(n) ==
    [nodes |-> [i \in 1..n |-> Node(i, NameE(i - 1), 1)] \o <<Node(n + 1, NameB, 0)>>,
     relationships |->
        Concat([i \in 1..n |-> Recipe((i % n) + 1, n + 1, 100 + i, i)])]

\* two nodes whose names differ in case only; "Ab" is made of two "ab"
CaseGraph ==
    [nodes |-> <<Node(1, <<65, 98>>, 1), Node(2, <<97, 98>>, 0)>>,
     relationships |-> Recipe(2, 2, 101, 1)]

\* an element with two recipes: (itself, B) resolves one child, (B, C) both
TwoRecipeGraph ==
    [nodes |-> <<Node(1, <<84>>, 1), Node(2, NameB, 0), Node(3, <<67>>, 2)>>,
     relationships |-> Recipe(1, 2, 101, 1) \o Recipe(2, 3, 102, 1)]

\* malformed pairs: X has a pair of three ingredients and a pair of one, and
\* the graph holds a relationship of a kind the index does not know
MalformedGraph ==
    [nodes |-> <<Node(1, NameX, 1), Node(3, NameB, 0)>>,
     relationships |->
        <<PartOf(3, 101), PartOf(3, 101), PartOf(3, 101), ResultsIn(101, 1),
          [type |-> "SIMILAR_TO", start |-> 1, end |-> 3],
          PartOf(3, 102), ResultsIn(102, 1)>>]

\* every graph over X (1), Y (2) and the basic B (3) in which X and Y have at
\* most one recipe each, its ingredients among X, Y, B and the id 9 of no node
IngredientIds == {1, 2, 3, 9}
RecipeChoices(pairId, resultId) ==
    {<<>>} \cup {Recipe(a, b, pairId, resultId) : a \in IngredientIds, b \in IngredientIds}
SmallGraphs ==
    {[nodes |-> <<Node(1, NameX, 1), Node(2, NameY, 1), Node(3, NameB, 0)>>,
      relationships |-> rx \o ry] :
        rx \in RecipeChoices(101, 1), ry \in RecipeChoices(102, 2)}

\* n basic elements N1 .. Nn without recipes
FlatGraph(n) ==
    [nodes |-> [i \in 1..n |-> Node(i, NameN(i), 0)], relationships |-> <<>>]

Graphs ==
    {SteamGraph, CaseGraph, TwoRecipeGraph, MalformedGraph}
        \cup {CycleGraph(n) : n \in 1..MaxCycle}
        \cup SmallGraphs

\* the names requested of a graph: those of its leading nodes, and the
\* lower-case spelling of the first
Targets(data) ==
    IF "nodes" \notin DOMAIN data \/ data.nodes = <<>> THEN {Steam}
    ELSE {data.nodes[i].name : i \in 1..(IF Len(data.nodes) < MaxTargets
                                         THEN Len(data.nodes) ELSE MaxTargets)}
            \cup {ToLowerCase(data.nodes[1].name)}

-----------------------------------------------------------------------------
(* State machine *)

Idx == [nodeMap |-> nodeMap, edgeMap |-> edgeMap, recipeResults |-> recipeResults,
        recipeIngredients |-> recipeIngredients]

\* ElementNode as mounted (recipeFrame.js lines 1617-1623).  clickTimeouts
\* counts the pending timeouts of line 1699; downAt and movedAway observe the
\* gesture: where the button went down, and was the pointer since then
\* farther from there than the threshold
NewElementNode ==
    [isDragging      |-> FALSE,
     dragStartPosRef |-> [mouseX |-> 0, mouseY |-> 0],
     hasDraggedRef   |-> FALSE,
     clickTimeouts   |-> 0,
     downAt          |-> [mouseX |-> 0, mouseY |-> 0],
     movedAway       |-> FALSE]

\* the state results of SearchBar: the items of a search, with the value
\* that was searched for
Results(query, items) == [query |-> query, items |-> items]

\* setResults([])
NoResults == Results(<<>>, <<>>)

\* SearchBar as mounted (searchBar.js lines 15-21); the input is disabled
\* until the elements are loaded, so the focus() of line 64 has no effect.
\* fuse: is the Fuse index set; hasFocus: is the input the focused element;
\* debounceTimer: the timeout of line 84 while it is pending, with the value
\* and the fuse its callback closed over; blurTimeouts: the pending timeouts
\* of line 131
NewSearchBar ==
    [searchTerm    |-> <<>>,
     results       |-> NoResults,
     fuse          |-> FALSE,
     isLoading     |-> TRUE,
     isFocused     |-> FALSE,
     hasFocus      |-> FALSE,
     debounceTimer |-> Null,
     blurTimeouts  |-> 0]

\* RecipeFrame as mounted (recipeFrame.js lines 921-929).  timeoutId: the
\* pending timeout of line 988, with the name its loadTree closed over;
\* frames: the names of the pending requestAnimationFrame callbacks of line
\* 989; loads: per request, how far its loadTree is; treeOf observes the
\* name the displayed tree was requested for
NewRecipeFrame ==
    [craftingTree   |-> Null,
     loading        |-> FALSE,
     renderComplete |-> FALSE,
     isReady        |-> FALSE,
     timeoutId      |-> Null,
     frames         |-> <<>>,
     loads          |-> [p \in Procs |-> "none"],
     treeOf         |-> <<>>]

\* latest access last
Touch(order, key) == Append(Filter(order, key), key)

InitWith(data, maxSize) ==
    /\ dagFile = data
    /\ cachedDAGData = Null
    /\ nodeMap = <<>>
    /\ edgeMap = EmptyMap
    /\ recipeResults = EmptyMap
    /\ recipeIngredients = EmptyMap
    /\ recipeCache = NewLRUCache(maxSize)
    /\ idCounter = 0
    /\ heap = <<>>
    /\ pc = [p \in Procs |-> "idle"]
    /\ arg = [p \in Procs |-> <<>>]
    /\ ret = [p \in Procs |-> 0]
    /\ built = [p \in Procs |-> FALSE]
    /\ again = [p \in Procs |-> FALSE]
    /\ firstRet = <<>>
    /\ recency = <<>>
    /\ dropped = {}
    /\ threw = [p \in Procs |-> FALSE]
    /\ stack = <<>>
    /\ bres = Null
    /\ selectedItem = Null
    /\ elementNodeState = NewElementNode
    /\ searchBarState = NewSearchBar
    /\ recipeFrameState = NewRecipeFrame

Init == \E data \in Graphs : InitWith(data, RECIPE_CACHE_SIZE)

\* buildCraftingTree(targetName) up to its await (lines 304-309), with the
\* synchronous start of loadDAGData (line 74)
Call(p, targetName) ==
    /\ pc[p] = "idle"
    /\ idCounter' = 0
    /\ arg' = [arg EXCEPT ![p] = targetName]
    /\ ret' = [ret EXCEPT ![p] = 0]
    /\ heap' = Collect(heap, Range(recipeCache.cache) \cup {ret[q] : q \in Procs \ {p}})
    /\ pc' = [pc EXCEPT ![p] = IF cachedDAGData # Null THEN "loaded" ELSE "fetch"]
    /\ again' = [again EXCEPT ![p] = targetName \in DOMAIN firstRet]
    /\ threw' = [threw EXCEPT ![p] = FALSE]
    /\ UNCHANGED <<build, dagFile, cachedDAGData, index, recipeCache, built, firstRet,
                   recency, dropped>>

\* line 77: the fetch answers with an ok response
FetchOk(p) ==
    /\ pc[p] = "fetch"
    /\ pc' = [pc EXCEPT ![p] = "json"]
    /\ UNCHANGED <<build, threw, dagFile, cachedDAGData, index, recipeCache, idCounter, heap, arg,
                   ret, built, again, firstRet, recency, dropped>>

\* a faulty failure path: the empty structure of line 92 is kept as the data
FetchFailRemembered(p) ==
    /\ pc[p] = "fetch"
    /\ pc' = [pc EXCEPT ![p] = "loaded"]
    /\ cachedDAGData' = [nodes |-> <<>>, relationships |-> <<>>]
    /\ UNCHANGED <<build, threw, dagFile, index, recipeCache, idCounter, heap, arg,
                   ret, built, again, firstRet, recency, dropped>>

\* lines 77-80 and 89-93: the fetch rejects or the response is not ok
FetchFail(p) ==
    /\ pc[p] = "fetch"
    /\ pc' = [pc EXCEPT ![p] = "loaded"]
    /\ UNCHANGED <<build, threw, dagFile, cachedDAGData, index, recipeCache, idCounter, heap, arg,
                   ret, built, again, firstRet, recency, dropped>>

\* lines 82-88: the body parses; the data is kept and indexed
JsonOk(p) ==
    /\ pc[p] = "json"
    /\ cachedDAGData' = dagFile
    /\ LET idx == ProcessDAGData(Idx, dagFile)
       IN /\ nodeMap' = idx.nodeMap
          /\ edgeMap' = idx.edgeMap
          /\ recipeResults' = idx.recipeResults
          /\ recipeIngredients' = idx.recipeIngredients
    /\ pc' = [pc EXCEPT ![p] = "loaded"]
    /\ UNCHANGED <<build, threw, dagFile, recipeCache, idCounter, heap, arg, ret, built, again,
                   firstRet, recency, dropped>>

\* lines 82 and 89-93: response.json() rejects
JsonFail(p) ==
    /\ pc[p] = "json"
    /\ pc' = [pc EXCEPT ![p] = "loaded"]
    /\ UNCHANGED <<build, threw, dagFile, cachedDAGData, index, recipeCache, idCounter, heap, arg,
                   ret, built, again, firstRet, recency, dropped>>

\* lines 311-347: what buildCraftingTree does after the await, as one
\* synchronous step.  The outcome: the cache, the heap, the returned object,
\* the counter, whether buildTree ran, and the cache key accessed (if any).
CacheKey(targetName) == ToLowerCase(targetName)

Outcome(c, h, o, ctr, ran, accessed) ==
    [cache |-> c, heap |-> h, obj |-> o, ctr |-> ctr, built |-> ran,
     accessed |-> accessed, threw |-> FALSE]

\* the call rejects: an exception of findElementByName or buildTree is not
\* caught by buildCraftingTree
Rejected(c, h, ctr, ran) ==
    [Outcome(c, h, 0, ctr, ran, <<>>) EXCEPT !.threw = TRUE]

Fresh(node) == [val |-> node, touched |-> FALSE]

\* lines 313-315
ServeFromCache(c, h, ctr, cacheKey) ==
    LET g == LRUGet(c, cacheKey)
        cl == StructuredClone(h, g.value)
    IN Outcome(g.c, cl.heap, cl.obj, ctr, FALSE, <<cacheKey>>)

\* a faulty fallback: the fallback tree is stored in the cache
FallbackStored(c, h, ctr, prefix, targetName, ran) ==
    LET g == GenerateUniqueId(targetName, ctr)
        a == Alloc(h, Fresh(SentinelNode(prefix, g.id, targetName)))
        cl == StructuredClone(a.heap, a.obj)
    IN Outcome(LRUSet(c, CacheKey(targetName), cl.obj), cl.heap, a.obj, g.ctr, ran,
               <<CacheKey(targetName)>>)

\* lines 320-329 and 335-342
Fallback(c, h, ctr, prefix, targetName, ran) ==
    LET g == GenerateUniqueId(targetName, ctr)
        a == Alloc(h, Fresh(SentinelNode(prefix, g.id, targetName)))
    IN Outcome(c, a.heap, a.obj, g.ctr, ran, <<>>)

\* a faulty return: the tree is handed out without being stored
StoreAndReturnUnstored(c, h, ctr, cacheKey, tree) ==
    LET a == Alloc(h, Fresh(tree))
    IN Outcome(c, a.heap, a.obj, ctr, TRUE, <<>>)

\* lines 344-347
StoreAndReturn(c, h, ctr, cacheKey, tree) ==
    LET a == Alloc(h, Fresh(tree))
        cl == StructuredClone(a.heap, a.obj)
    IN Outcome(LRUSet(c, cacheKey, cl.obj), cl.heap, a.obj, ctr, TRUE, <<cacheKey>>)

\* lines 334-347: what follows the call of buildTree, r being its result
AfterBuild(c, h, targetName, r) ==
    IF r.threw THEN Rejected(c, h, r.ctr, TRUE)
    ELSE IF ~r.ok THEN Fallback(c, h, r.ctr, BasicPrefix, targetName, TRUE)
    ELSE StoreAndReturn(c, h, r.ctr, CacheKey(targetName), r.node)

AfterLoad(idx, c, h, ctr, targetName) ==
    LET cacheKey == CacheKey(targetName)
    IN IF LRUHas(c, cacheKey) THEN ServeFromCache(c, h, ctr, cacheKey)
       ELSE LET targetElement == FindElementByName(idx.nodeMap, targetName)
            IN IF targetElement = Thrown THEN Rejected(c, h, ctr, FALSE)
               ELSE IF targetElement = Null
               THEN Fallback(c, h, ctr, UnknownPrefix, targetName, FALSE)
               ELSE AfterBuild(c, h, targetName,
                               BuildTree(idx, targetElement.id, {}, 0, MAX_TREE_DEPTH, ctr))

\* the call of request p ends with the outcome out
Complete(p, out) ==
    /\ LET val == out.heap[out.obj].val
       IN /\ recipeCache' = out.cache
          /\ idCounter' = out.ctr
          /\ ret' = [ret EXCEPT ![p] = out.obj]
          /\ heap' = Collect(out.heap,
                             Range(out.cache.cache) \cup {out.obj}
                                \cup {ret[q] : q \in Procs \ {p}})
          /\ built' = [built EXCEPT ![p] = out.built]
          /\ recency' = IF out.accessed = <<>> THEN recency
                        ELSE Touch(recency, out.accessed[1])
          /\ dropped' = DOMAIN recipeCache.cache \ DOMAIN out.cache.cache
          /\ firstRet' = IF \/ cachedDAGData = Null
                            \/ arg[p] \in DOMAIN firstRet
                            \/ out.threw
                         THEN firstRet
                         ELSE MapSet(firstRet, arg[p], val)
          /\ threw' = [threw EXCEPT ![p] = out.threw]
    /\ pc' = [pc EXCEPT ![p] = "idle"]
    /\ UNCHANGED <<dagFile, cachedDAGData, index, arg, again>>

Resume(p) ==
    /\ pc[p] = "loaded"
    /\ Complete(p, AfterLoad(Idx, recipeCache, heap, idCounter, arg[p]))
    /\ UNCHANGED build

\* the caller writes to the tree it was given (positions, drag state)
Mutate(p) ==
    /\ pc[p] = "idle"
    /\ ret[p] # 0
    /\ ~heap[ret[p]].touched
    /\ heap' = [heap EXCEPT ![ret[p]].touched = TRUE]
    /\ UNCHANGED <<build, threw, dagFile, cachedDAGData, index, recipeCache, idCounter, pc, arg,
                   ret, built, again, firstRet, recency, dropped>>

StepOn(p, names) ==
    \/ \E targetName \in names : Call(p, targetName)
    \/ FetchOk(p)
    \/ FetchFail(p)
    \/ JsonOk(p)
    \/ JsonFail(p)
    \/ Resume(p)
    \/ Mutate(p)

Step(p) == StepOn(p, Targets(dagFile))

\* one caller, which awaits each answer before it asks again
Next == Step(1) /\ UNCHANGED ui

Spec == Init /\ [][Next]_vars

-----------------------------------------------------------------------------
(* buildTree, call by call.  A frame is a call of buildTree that has       *)
(* reached its candidate loop: visited is the set the call works on (the   *)
(* set it received, with elementId added at line 210), sets its            *)
(* ingredientSets, i the candidate the loop is at, j the next ingredient   *)
(* of that candidate, childTrees the children resolved for the candidate,  *)
(* best the value of bestIngredients, stop whether the loop has been left  *)
(* by the break of line 253.                                               *)

Frame(elementId, visited, depth, sets) ==
    [elementId |-> elementId, visited |-> visited, depth |-> depth, sets |-> sets,
     i |-> 1, j |-> 1, childTrees |-> <<>>, best |-> <<>>, stop |-> FALSE]

\* a faulty recursion: the child gets an empty visited set and its parent's
\* depth
ChildArgsLost(frame) == [visited |-> {}, depth |-> frame.depth]

\* a faulty recursion: one set is shared, and the elements resolved for the
\* earlier ingredients of the candidate stay in it
ChildArgsShared(frame) ==
    [visited |-> frame.visited
                    \cup {frame.childTrees[k].originalId : k \in 1..Len(frame.childTrees)},
     depth |-> frame.depth + 1]

\* line 243: the arguments of the recursive call, new Set(visited), depth + 1
ChildArgs(frame) == [visited |-> frame.visited, depth |-> frame.depth + 1]

\* lines 178-230: a call up to its candidate loop.  It returns at once
\* (kind "return": null or a leaf), raises (kind "throw"), or reaches the loop
\* (kind "push")
Enter(idx, elementId, visited, depth, maxDepth, ctr) ==
    LET Return(r) == [kind |-> IF r.threw THEN "throw" ELSE "return", res |-> r,
                      frame |-> Frame(elementId, visited, depth, <<>>)]
        elementNode == OMapGet(idx.nodeMap, elementId)
        g == GenerateUniqueId(elementNode.name, ctr)
    IN IF DepthExceeded(depth, maxDepth)
       THEN IF ~OMapHas(idx.nodeMap, elementId) THEN Return(NullResult(ctr))
            ELSE IF NameThrows(elementNode) THEN Return(ThrowResult(ctr))
            ELSE IF IdThrows(elementNode) THEN Return(ThrowResult(g.ctr))
            ELSE Return(NodeResult(DepthLimitedLeaf(g.id, elementNode.name, elementId),
                                   g.ctr))
       ELSE IF AlreadyVisited(visited, elementId) THEN Return(NullResult(ctr))
       ELSE IF ~OMapHas(idx.nodeMap, elementId) THEN Return(NullResult(ctr))
       ELSE IF NameThrows(elementNode) THEN Return(ThrowResult(ctr))
       ELSE IF IsBasicElement(elementNode) \/ elementId \notin DOMAIN idx.recipeIngredients
       THEN IF IdThrows(elementNode) THEN Return(ThrowResult(g.ctr))
            ELSE Return(NodeResult(SimpleNode(g.id, elementNode.name,
                                              IsBasicElement(elementNode), elementId),
                                   g.ctr))
       ELSE [kind |-> "push", res |-> NullResult(ctr),
             frame |-> Frame(elementId, visited \cup {elementId}, depth,
                             idx.recipeIngredients[elementId])]

Top == stack[Len(stack)]

\* a faulty loop: the break of line 253 is missing
LoopOverNoBreak(idx, f) ==
    \/ f.i > Len(f.sets)
    \/ f.i <= Len(f.sets) /\ CandidateCapReached(f.sets, f.sets[f.i])

\* the candidate loop of a frame is over: no candidate is left, the cap of
\* line 237 or the break of line 253 ended it
LoopOver(idx, f) ==
    \/ f.stop
    \/ f.i > Len(f.sets)
    \/ f.i <= Len(f.sets) /\ CandidateCapReached(f.sets, f.sets[f.i])

Candidate(idx, f) == IngredientSet(idx, f.sets[f.i])

\* the value a call hands to its caller: the caller's frame takes a node as
\* the next child of its candidate and moves on to the next ingredient
Deliver(st, r) ==
    LET f == st[Len(st)]
    IN [st EXCEPT ![Len(st)] =
            [f EXCEPT !.childTrees = IF r.ok THEN Append(@, r.node) ELSE @,
                      !.j = @ + 1]]

BuildFrame(p) ==
    UNCHANGED <<dagFile, cachedDAGData, index, recipeCache, heap, pc, arg, ret,
                built, again, firstRet, recency, dropped, threw>>

\* lines 317-332: the lookup by name found a node and buildTree is called
BuildStart(p) ==
    /\ pc[p] = "loaded"
    /\ ~LRUHas(recipeCache, CacheKey(arg[p]))
    /\ LET targetElement == FindElementByName(nodeMap, arg[p])
       IN /\ targetElement # Null
          /\ targetElement # Thrown
          /\ LET e == Enter(Idx, targetElement.id, {}, 0, MAX_TREE_DEPTH, idCounter)
             IN /\ stack' = IF e.kind = "push" THEN <<e.frame>> ELSE <<>>
                /\ bres' = IF e.kind = "push" THEN Null ELSE e.res
                /\ idCounter' = e.res.ctr
    /\ pc' = [pc EXCEPT ![p] = "building"]
    /\ UNCHANGED <<dagFile, cachedDAGData, index, recipeCache, heap, arg, ret,
                   built, again, firstRet, recency, dropped, threw>>

\* line 243: the call for the next ingredient of the candidate
BuildCall(p) ==
    /\ pc[p] = "building"
    /\ stack # <<>>
    /\ Len(stack) < MaxStack
    /\ ~LoopOver(Idx, Top)
    /\ Top.j <= Len(Candidate(Idx, Top))
    /\ LET a == ChildArgs(Top)
           e == Enter(Idx, Candidate(Idx, Top)[Top.j], a.visited, a.depth,
                      MAX_TREE_DEPTH, idCounter)
       IN /\ stack' = CASE e.kind = "push" -> Append(stack, e.frame)
                        [] e.kind = "return" -> Deliver(stack, e.res)
                        [] e.kind = "throw" -> <<>>
          /\ bres' = IF e.kind = "throw" THEN e.res ELSE bres
          /\ idCounter' = e.res.ctr
    /\ BuildFrame(p)

\* lines 246-254: the candidate has been evaluated
BuildNextCandidate(p) ==
    /\ pc[p] = "building"
    /\ stack # <<>>
    /\ ~LoopOver(Idx, Top)
    /\ Top.j > Len(Candidate(Idx, Top))
    /\ stack' = [stack EXCEPT ![Len(stack)] =
                    [Top EXCEPT !.best = IF IsBetterRecipe(Top.childTrees, @)
                                         THEN Top.childTrees ELSE @,
                                !.stop = Len(Top.childTrees) = 2,
                                !.i = @ + 1, !.j = 1, !.childTrees = <<>>]]
    /\ UNCHANGED <<bres, idCounter>>
    /\ BuildFrame(p)

\* lines 257-282: the call that has left its loop returns
BuildReturn(p) ==
    /\ pc[p] = "building"
    /\ stack # <<>>
    /\ LoopOver(Idx, Top)
    /\ LET elementNode == OMapGet(nodeMap, Top.elementId)
           g == GenerateUniqueId(elementNode.name, idCounter)
           r == IF IdThrows(elementNode) THEN ThrowResult(g.ctr)
                ELSE IF Len(Top.best) > 0
                THEN NodeResult(RecipeNode(g.id, elementNode.name, Top.elementId,
                                           Top.best), g.ctr)
                ELSE NodeResult(NoRecipeLeaf(g.id, elementNode.name, Top.elementId),
                                g.ctr)
           rest == SubSeq(stack, 1, Len(stack) - 1)
       IN /\ stack' = IF r.threw \/ rest = <<>> THEN <<>> ELSE Deliver(rest, r)
          /\ bres' = IF r.threw \/ rest = <<>> THEN r ELSE bres
          /\ idCounter' = g.ctr
    /\ BuildFrame(p)

\* lines 334-347: buildTree has returned to buildCraftingTree, or its
\* exception leaves buildCraftingTree
BuildFinish(p) ==
    /\ pc[p] = "building"
    /\ stack = <<>>
    /\ Complete(p, AfterBuild(recipeCache, heap, arg[p], bres))
    /\ stack' = <<>>
    /\ bres' = Null

\* lines 311-329: the calls that end without a call of buildTree
ResumeWithoutBuild(p) ==
    /\ \/ LRUHas(recipeCache, CacheKey(arg[p]))
       \/ FindElementByName(nodeMap, arg[p]) \in {Null, Thrown}
    /\ Resume(p)

BuildSteps(p) ==
    \/ BuildCall(p)
    \/ BuildNextCandidate(p)
    \/ BuildReturn(p)
    \/ BuildFinish(p)

\* a chain of n nested recipes: Ei <- (E(i+1), B) for i < n, and En <- (B, B)
ChainGraph(n) ==
    [nodes |-> [i \in 1..n |-> Node(i, NameE(i), 1)] \o <<Node(n + 1, NameB, 0)>>,
     relationships |->
        Concat([i \in 1..n |->
                    Recipe(IF i < n THEN i + 1 ELSE n + 1, n + 1, 100 + i, i)])]

\* a node without a name among the ingredients of X
NoNameGraph ==
    [nodes |-> <<Node(1, NameX, 1), NodeNoName(2, 0), Node(3, NameB, 0)>>,
     relationships |-> Recipe(2, 3, 101, 1)]

\* a node without properties among the ingredients of X
NoPropertiesGraph ==
    [nodes |-> <<Node(1, NameX, 1), Node(3, NameB, 0), NodeNoProperties(2)>>,
     relationships |-> Recipe(3, 2, 101, 1)]

\* a chain E1 <- (E2, B), ..., E7 <- (E8, B) whose last element, met at
\* depth 7, is a node without a name
NamelessDeepGraph ==
    [nodes |-> [i \in 1..(MAX_TREE_DEPTH + 1) |-> Node(i, NameE(i), 1)]
                  \o <<NodeNoName(MAX_TREE_DEPTH + 2, 1), Node(100, NameB, 0)>>,
     relationships |->
        Concat([i \in 1..(MAX_TREE_DEPTH + 1) |-> Recipe(i + 1, 100, 100 + i, i)])]

\* X has four recipes that resolve 0, 1, 1 and 0 children: (X, X), (X, B),
\* (Y, X) and two ids of no node; B and Y are basic
SelectionGraph ==
    [nodes |-> <<Node(1, NameX, 1), Node(3, NameB, 0), Node(4, NameY, 0)>>,
     relationships |->
        Recipe(1, 1, 101, 1) \o Recipe(1, 3, 102, 1)
            \o Recipe(4, 1, 103, 1) \o Recipe(9, 9, 104, 1)]

\* X has three recipes: (X, B) resolves one child, (B, Y) resolves both, and
\* (Y, Y) comes after it
EarlyStopGraph ==
    [nodes |-> <<Node(1, NameX, 1), Node(3, NameB, 0), Node(4, NameY, 0)>>,
     relationships |->
        Recipe(1, 3, 101, 1) \o Recipe(3, 4, 102, 1) \o Recipe(4, 4, 103, 1)]

\* X has six recipes (X, B), each of its own pair
SixRecipeGraph ==
    [nodes |-> <<Node(1, NameX, 1), Node(3, NameB, 0)>>,
     relationships |-> Concat([i \in 1..6 |-> Recipe(1, 3, 100 + i, 1)])]

\* six RESULTS_IN relationships lead from the one pair (X, B) to X
RepeatedPairGraph ==
    [nodes |-> <<Node(1, NameX, 1), Node(3, NameB, 0)>>,
     relationships |->
        <<PartOf(1, 101), PartOf(3, 101)>> \o [i \in 1..6 |-> ResultsIn(101, 1)]]

\* X <- (N, B), where N is a node without a name whose only recipe is (N, N)
NamelessRecipeGraph ==
    [nodes |-> <<Node(1, NameX, 1), NodeNoName(2, 1), Node(3, NameB, 0)>>,
     relationships |-> Recipe(2, 3, 101, 1) \o Recipe(2, 2, 102, 2)]

\* the recipes of X resolve no child: (X, X) and two ids of no node
UnresolvedGraph ==
    [nodes |-> <<Node(1, NameX, 1), Node(3, NameB, 0)>>,
     relationships |-> Recipe(1, 1, 101, 1) \o Recipe(9, 9, 102, 1)]

\* X <- (Y, B), and Y has the recipes (X, B) and (B, B)
NestedGraph ==
    [nodes |-> <<Node(1, NameX, 1), Node(2, NameY, 1), Node(3, NameB, 0)>>,
     relationships |->
        Recipe(2, 3, 101, 1) \o Recipe(1, 3, 102, 2) \o Recipe(3, 3, 103, 2)]

BuildGraphs ==
    {SteamGraph, TwoRecipeGraph, MalformedGraph, ChainGraph(ChainLen),
     NoNameGraph, NoPropertiesGraph, NamelessDeepGraph, SelectionGraph,
     EarlyStopGraph, SixRecipeGraph, RepeatedPairGraph, NamelessRecipeGraph,
     UnresolvedGraph, NestedGraph}
        \cup {CycleGraph(n) : n \in 1..MaxCycle}

InitBuild == \E data \in BuildGraphs : InitWith(data, RECIPE_CACHE_SIZE)

NextBuild ==
    /\ \/ \E targetName \in Targets(dagFile) : Call(1, targetName)
       \/ FetchOk(1)
       \/ JsonOk(1)
       \/ ResumeWithoutBuild(1)
       \/ BuildStart(1)
       \/ BuildSteps(1)
    /\ UNCHANGED ui

\* buildTree is synchronous code: once called it runs until it returns
SpecBuild == InitBuild /\ [][NextBuild]_vars /\ WF_lib(BuildSteps(1))

-----------------------------------------------------------------------------
(* Requests on graphs with missing or malformed data.                      *)

\* the graph object has no nodes array
NoNodesGraph == [relationships |-> SteamGraph.relationships]

\* the graph object has no relationships array
NoRelationshipsGraph == [nodes |-> SteamGraph.nodes]

\* the Steam graph with one more PART_OF that has no start
MissingStartGraph ==
    [nodes |-> SteamGraph.nodes,
     relationships |-> SteamGraph.relationships \o <<PartOf(Undefined, 101)>>]

\* the Steam graph with one more PART_OF that has no end
MissingEndGraph ==
    [nodes |-> SteamGraph.nodes,
     relationships |-> SteamGraph.relationships \o <<PartOf(1, Undefined)>>]

\* the Steam graph with a second pair that results in the id 9 of no node
NoResultNodeGraph ==
    [nodes |-> SteamGraph.nodes,
     relationships |-> SteamGraph.relationships \o Recipe(1, 2, 102, 9)]

\* X has three pairs: the first and the third of two ingredients, the second
\* of three
DroppedPairGraph ==
    [nodes |-> <<Node(1, NameX, 1), Node(3, NameB, 0), Node(4, NameY, 0)>>,
     relationships |->
        Recipe(3, 4, 101, 1)
            \o <<PartOf(3, 102), PartOf(4, 102), PartOf(3, 102), ResultsIn(102, 1)>>
            \o Recipe(4, 3, 103, 1)]

\* a node whose name begins like a sentinel id: "Unknown X"
SentinelNameGraph ==
    [nodes |-> <<Node(1, <<85, 110, 107, 110, 111, 119, 110, 32, 88>>, 0)>>,
     relationships |-> <<>>]

DataGraphs ==
    {SteamGraph, TwoRecipeGraph, MalformedGraph, NoNameGraph, NoPropertiesGraph,
     NoNodesGraph, NoRelationshipsGraph, MissingStartGraph, MissingEndGraph,
     NoResultNodeGraph, DroppedPairGraph, SentinelNameGraph}

InitData == \E data \in DataGraphs : InitWith(data, RECIPE_CACHE_SIZE)

SpecData == InitData /\ [][Next]_vars

-----------------------------------------------------------------------------
(* The LRUCache class on its own: get, set and clear in any order, on an   *)
(* instance constructed with a small maxSize.                              *)

LRUKeys == {<<107>> \o ToDigits(i) : i \in 1..NumKeys}
LRUValues == {1, 2}

InitLRU == \E maxSize \in 1..MaxCap : InitWith(SteamGraph, maxSize)

CacheOp(c) ==
    /\ recipeCache' = c
    /\ dropped' = DOMAIN recipeCache.cache \ DOMAIN c.cache
    /\ UNCHANGED <<build, threw, dagFile, cachedDAGData, index, idCounter, heap, pc, arg, ret,
                   built, again, firstRet>>

LruGet(key) ==
    /\ CacheOp(LRUGet(recipeCache, key).c)
    /\ recency' = IF LRUHas(recipeCache, key) THEN Touch(recency, key) ELSE recency

LruSet(key, value) ==
    /\ CacheOp(LRUSet(recipeCache, key, value))
    /\ recency' = Touch(recency, key)

LruClear ==
    /\ CacheOp(LRUClear(recipeCache))
    /\ UNCHANGED recency

NextLRU ==
    /\ \/ \E key \in LRUKeys : LruGet(key)
       \/ \E key \in LRUKeys, value \in LRUValues : LruSet(key, value)
       \/ LruClear
    /\ UNCHANGED ui

SpecLRU == InitLRU /\ [][NextLRU]_vars

-----------------------------------------------------------------------------
(* Filling recipeCache: a graph of NumFlat elements; the caller asks for   *)
(* the elements in the order of the graph, each new name after the ones    *)
(* before it, and may at any time ask again for the first.                 *)

InitCache == InitWith(FlatGraph(NumFlat), RECIPE_CACHE_SIZE)

\* recency holds every key asked for so far, once: the next new name is the
\* one after them in the graph
SweepTargets ==
    {NameN(1)} \cup {NameN(i) : i \in {Len(recency) + 1} \cap (1..NumFlat)}

NextCache ==
    /\ \/ \E targetName \in SweepTargets : Call(1, targetName)
       \/ FetchOk(1)
       \/ JsonOk(1)
       \/ Resume(1)
    /\ UNCHANGED ui

SpecCache == InitCache /\ [][NextCache]_vars

-----------------------------------------------------------------------------
(* Two callers whose buildCraftingTree calls interleave at the awaits.     *)

\* the Steam graph with a null entry at the end of its relationships
NullRelationshipGraph ==
    [nodes |-> SteamGraph.nodes,
     relationships |-> Append(SteamGraph.relationships, Null)]

ConcGraphs == {SteamGraph, CaseGraph, NullRelationshipGraph}

InitConc == \E data \in ConcGraphs : InitWith(data, RECIPE_CACHE_SIZE)

\* both callers ask for the first element of the graph, in either spelling
ConcTargets == {dagFile.nodes[1].name, ToLowerCase(dagFile.nodes[1].name)}

NextConc == (\E p \in Procs : StepOn(p, ConcTargets)) /\ UNCHANGED ui

SpecConc == InitConc /\ [][NextConc]_vars

-----------------------------------------------------------------------------
(* ElementNode (recipeFrame.js lines 1616-1715): one node of the displayed  *)
(* tree under the mouse.  Positions are client coordinates in pixels.       *)

MaxCoord == 6
MaxDown == 1
MaxTimeouts == 1
MaxRandom == 2

dragDistanceThreshold == 5

Abs(n) == IF n < 0 THEN 0 - n ELSE n

\* clientX and clientY of a mouse event
Positions == [mouseX : 0..MaxCoord, mouseY : 0..MaxCoord]

\* where the node is when the button goes down on it
DownPositions == [mouseX : 0..MaxDown, mouseY : {0}]

\* the buttons of a mousedown event: 0 is the primary button
Buttons == {0, 2}

\* line 1659: the event is beyond the threshold from dragStartPosRef
MovedBeyond(en, e) ==
    \/ Abs(e.mouseX - en.dragStartPosRef.mouseX) > dragDistanceThreshold
    \/ Abs(e.mouseY - en.dragStartPosRef.mouseY) > dragDistanceThreshold

\* is e farther from the position of the mousedown than the threshold
AwayFromDown(en, e) ==
    \/ Abs(e.mouseX - en.downAt.mouseX) > dragDistanceThreshold
    \/ Abs(e.mouseY - en.downAt.mouseY) > dragDistanceThreshold

\* the element the node shows
NodeName == Steam

ElementPrefix == <<101, 108, 101, 109, 101, 110, 116, 45>>   \* "element-"

\* the outcomes of Math.random().toString(36).substring(2, 9) (page.tsx
\* line 48), as digits
RandomSuffixes == {ToDigits(r) : r \in 1..MaxRandom}

\* page.tsx lines 43-51: onElementSelect
OnElementSelect(elementName, random) ==
    IF elementName # <<>>
        THEN selectedItem' = [id |-> ElementPrefix \o random, name |-> elementName]
        ELSE UNCHANGED selectedItem

\* handleMouseDown (lines 1630-1649); a press of another button is ignored
\* (line 1632).  The handlers are registered again by the effect (lines
\* 1706-1715) before the next event, so each handler reads the current
\* isDragging.
MouseDown(e, button) ==
    /\ elementNodeState' =
          IF button # 0
              THEN elementNodeState
              ELSE [elementNodeState EXCEPT
                        !.hasDraggedRef = FALSE,
                        !.dragStartPosRef = e,
                        !.isDragging = TRUE,
                        !.downAt = e,
                        !.movedAway = FALSE]
    /\ UNCHANGED <<lib, selectedItem, searchBarState, recipeFrameState>>

\* handleMouseMove (lines 1651-1690).  onDrag moves the node on the canvas,
\* which no condition of the handlers reads.
MouseMove(e) ==
    /\ elementNodeState' =
          IF ~elementNodeState.isDragging
              THEN elementNodeState
              ELSE [elementNodeState EXCEPT
                        !.hasDraggedRef = @ \/ MovedBeyond(elementNodeState, e),
                        !.dragStartPosRef = e,
                        !.movedAway = @ \/ AwayFromDown(elementNodeState, e)]
    /\ UNCHANGED <<lib, selectedItem, searchBarState, recipeFrameState>>

\* handleMouseUp (lines 1692-1704): a click is scheduled 10 ms later when
\* hasDraggedRef is still false
MouseUp ==
    /\ elementNodeState.isDragging
    /\ elementNodeState.clickTimeouts < MaxTimeouts
    /\ elementNodeState' =
          [elementNodeState EXCEPT
               !.isDragging = FALSE,
               !.clickTimeouts = IF ~elementNodeState.hasDraggedRef THEN @ + 1 ELSE @]
    /\ UNCHANGED <<lib, selectedItem, searchBarState, recipeFrameState>>

\* the timeout of lines 1699-1701 fires
ClickTimeout ==
    /\ elementNodeState.clickTimeouts > 0
    /\ elementNodeState' = [elementNodeState EXCEPT !.clickTimeouts = @ - 1]
    /\ \E random \in RandomSuffixes : OnElementSelect(NodeName, random)
    /\ UNCHANGED <<lib, searchBarState, recipeFrameState>>

InitDrag == InitWith(SteamGraph, RECIPE_CACHE_SIZE)

NextDrag ==
    \/ \E e \in DownPositions, button \in Buttons : MouseDown(e, button)
    \/ \E e \in Positions : MouseMove(e)
    \/ MouseUp
    \/ ClickTimeout

SpecDrag == InitDrag /\ [][NextDrag]_vars

-----------------------------------------------------------------------------
(* SearchBar (searchBar.js): typing, the debounce timer, the clear button,  *)
(* the result list and the focus of the input.                              *)

\* the rows of /data/elements.csv (lines 38-41)
ElementData ==
    <<[id |-> ToDigits(1), name |-> Fire],
      [id |-> ToDigits(2), name |-> Water],
      [id |-> ToDigits(3), name |-> Steam]>>

\* the values the user types into the input: "", "s", "st", "w"
TypedValues == {<<>>, <<115>>, <<115, 116>>, <<119>>}

\* does name contain value, apart from the case of the letters
Contains(name, value) ==
    \E i \in 1..(Len(name) - Len(value) + 1) :
        SubSeq(ToLowerCase(name), i, i + Len(value) - 1) = ToLowerCase(value)

\* fuse.search(value, { limit: 6 }) (line 86): Fuse is a library; its result
\* is taken to be the elements whose name contains the value
FuseSearch(value) ==
    LET found == SelectSeq(ElementData, LAMBDA el : Contains(el.name, value))
    IN Results(value, SubSeq(found, 1, IF Len(found) < 6 THEN Len(found) ELSE 6))

\* loadData (lines 25-58): the elements arrive and the index is set
LoadDataOk ==
    /\ searchBarState.isLoading
    /\ searchBarState' = [searchBarState EXCEPT !.fuse = TRUE, !.isLoading = FALSE]
    /\ UNCHANGED <<lib, selectedItem, elementNodeState, recipeFrameState>>

\* loadData (lines 54-57): the fetch fails
LoadDataFail ==
    /\ searchBarState.isLoading
    /\ searchBarState' = [searchBarState EXCEPT !.isLoading = FALSE]
    /\ UNCHANGED <<lib, selectedItem, elementNodeState, recipeFrameState>>

\* handleFocus (lines 117-127) as rendered with the search term term
HandleFocus(sb, term) ==
    [sb EXCEPT !.isFocused = TRUE,
               !.hasFocus = TRUE,
               !.results = IF Len(term) > 0 /\ sb.fuse THEN FuseSearch(term) ELSE @]

\* handleBlur (lines 129-132)
HandleBlur(sb) ==
    [sb EXCEPT !.hasFocus = FALSE, !.blurTimeouts = @ + 1]

\* the user puts the focus on the input
FocusInput ==
    /\ ~searchBarState.isLoading
    /\ ~searchBarState.hasFocus
    /\ searchBarState' = HandleFocus(searchBarState, searchBarState.searchTerm)
    /\ selectedItem' = Null
    /\ UNCHANGED <<lib, elementNodeState, recipeFrameState>>

\* the user moves the focus away from the input
BlurInput ==
    /\ searchBarState.hasFocus
    /\ searchBarState.blurTimeouts < MaxTimeouts
    /\ searchBarState' = HandleBlur(searchBarState)
    /\ UNCHANGED <<lib, selectedItem, elementNodeState, recipeFrameState>>

\* the timeout of line 131 fires
BlurTimeout ==
    /\ searchBarState.blurTimeouts > 0
    /\ searchBarState' =
          [searchBarState EXCEPT !.isFocused = FALSE, !.blurTimeouts = @ - 1]
    /\ UNCHANGED <<lib, selectedItem, elementNodeState, recipeFrameState>>

\* handleSearch (lines 74-92): the pending timer is cleared and a new one
\* is set
HandleSearch(value) ==
    /\ searchBarState.hasFocus
    /\ value # searchBarState.searchTerm
    /\ searchBarState' =
          [searchBarState EXCEPT
               !.searchTerm = value,
               !.debounceTimer = [value |-> value, fuse |-> searchBarState.fuse]]
    /\ UNCHANGED <<lib, selectedItem, elementNodeState, recipeFrameState>>

\* the callback of lines 84-91 runs, 300 ms after its handleSearch
DebounceTimeout ==
    /\ searchBarState.debounceTimer # Null
    /\ searchBarState' =
          [searchBarState EXCEPT
               !.results =
                   IF searchBarState.debounceTimer.fuse
                      /\ Len(searchBarState.debounceTimer.value) > 0
                       THEN FuseSearch(searchBarState.debounceTimer.value)
                       ELSE NoResults,
               !.debounceTimer = Null]
    /\ UNCHANGED <<lib, selectedItem, elementNodeState, recipeFrameState>>

\* the clear button (lines 182-191).  The press takes the focus from the
\* input or not (takesFocus: browsers differ); focus() on an input that is
\* not focused runs handleFocus, as it was rendered before the click.
ClearButton(takesFocus) ==
    /\ searchBarState.searchTerm # <<>>
    /\ LET blurs   == searchBarState.hasFocus /\ takesFocus
           pressed == IF blurs THEN HandleBlur(searchBarState) ELSE searchBarState
           cleared == [pressed EXCEPT !.searchTerm = <<>>, !.results = NoResults]
       IN /\ blurs => searchBarState.blurTimeouts < MaxTimeouts
          /\ searchBarState' =
                IF pressed.hasFocus
                    THEN cleared
                    ELSE HandleFocus(cleared, searchBarState.searchTerm)
    /\ selectedItem' = Null
    /\ UNCHANGED <<lib, elementNodeState, recipeFrameState>>

\* a click on the k-th item of the result list (lines 221-226); the list is
\* rendered while there are results and isFocused (line 214), and the press
\* takes the focus from the input
ResultClick(k) ==
    /\ searchBarState.isFocused
    /\ k \in 1..Len(searchBarState.results.items)
    /\ searchBarState.hasFocus => searchBarState.blurTimeouts < MaxTimeouts
    /\ LET item    == searchBarState.results.items[k]
           pressed == IF searchBarState.hasFocus
                          THEN HandleBlur(searchBarState) ELSE searchBarState
       IN /\ searchBarState' =
                [pressed EXCEPT !.searchTerm = item.name,
                                !.results = NoResults,
                                !.isFocused = FALSE]
          /\ selectedItem' = [id |-> item.id, name |-> item.name]
    /\ UNCHANGED <<lib, elementNodeState, recipeFrameState>>

InitSearch == InitWith(SteamGraph, RECIPE_CACHE_SIZE)

NextSearch ==
    \/ LoadDataOk
    \/ LoadDataFail
    \/ FocusInput
    \/ BlurInput
    \/ BlurTimeout
    \/ \E value \in TypedValues : HandleSearch(value)
    \/ DebounceTimeout
    \/ \E takesFocus \in BOOLEAN : ClearButton(takesFocus)
    \/ \E k \in 1..Len(ElementData) : ResultClick(k)

SpecSearch == InitSearch /\ [][NextSearch]_vars

-----------------------------------------------------------------------------
(* RecipeFrame (recipeFrame.js lines 920-995) with the buildCraftingTree    *)
(* calls of its loadTree.  A continuation after an await whose promise is   *)
(* settled runs before any other event is handled.                          *)

MaxFrames == 1

FrameGraphs == {SteamGraph, NoNameGraph}

\* the items the user selects
SelectItems ==
    {[id |-> ToDigits(1), name |-> Steam], [id |-> ToDigits(2), name |-> NameX]}

\* the tree of lines 973-981
ErrorTree(name) ==
    [id |-> <<101, 114, 114, 111, 114>>, name |-> name, isBasic |-> FALSE,
     ingredients |->
        <<[id |-> <<101, 114, 114, 111, 114, 49>>,
           name |-> <<69, 108, 101, 109, 101, 110, 116, 32, 49>>, isBasic |-> TRUE],
          [id |-> <<101, 114, 114, 111, 114, 50>>,
           name |-> <<69, 108, 101, 109, 101, 110, 116, 32, 50>>, isBasic |-> TRUE]>>]

\* request p has a continuation that runs before any other event
Continues(p) ==
    \/ pc[p] = "loaded"
    \/ pc[p] = "idle" /\ recipeFrameState.loads[p] = "awaiting"

\* no continuation is waiting to run
Quiet == \A p \in Procs : ~Continues(p)

\* setSelectedItem(item) with a new item, and the effect of lines 937-995
\* for it: the cleanup of the effect before (line 994) clears its timeout,
\* the states are reset and a new timeout is set
Select(item) ==
    /\ Quiet
    /\ selectedItem' = item
    /\ recipeFrameState' =
          [recipeFrameState EXCEPT
               !.loading = TRUE,
               !.renderComplete = FALSE,
               !.isReady = FALSE,
               !.craftingTree = Null,
               !.treeOf = <<>>,
               !.timeoutId = [name |-> item.name]]
    /\ UNCHANGED <<lib, elementNodeState, searchBarState>>

\* the timeout of lines 988-992 fires
LoadTimeout ==
    /\ Quiet
    /\ recipeFrameState.timeoutId # Null
    /\ Len(recipeFrameState.frames) < MaxFrames
    /\ recipeFrameState' =
          [recipeFrameState EXCEPT
               !.timeoutId = Null,
               !.frames = Append(@, recipeFrameState.timeoutId.name)]
    /\ UNCHANGED <<lib, selectedItem, elementNodeState, searchBarState>>

\* the animation frame callback of lines 989-991 runs loadTree up to its
\* await (line 950), as request p
AnimationFrame(p) ==
    /\ Quiet
    /\ recipeFrameState.frames # <<>>
    /\ recipeFrameState.loads[p] = "none"
    /\ Call(p, Head(recipeFrameState.frames))
    /\ recipeFrameState' =
          [recipeFrameState EXCEPT !.frames = Tail(@), !.loads[p] = "awaiting"]
    /\ UNCHANGED <<selectedItem, elementNodeState, searchBarState>>

\* the steps of the buildCraftingTree call of request p
LoadSteps(p) ==
    /\ \/ Quiet /\ FetchOk(p)
       \/ Quiet /\ FetchFail(p)
       \/ Quiet /\ JsonOk(p)
       \/ Quiet /\ JsonFail(p)
       \/ Resume(p)
    /\ UNCHANGED ui

\* loadTree after its await (lines 950-984): the tree is set, or the tree
\* of the catch when buildCraftingTree rejected
LoadTreeResumes(p) ==
    /\ pc[p] = "idle"
    /\ recipeFrameState.loads[p] = "awaiting"
    /\ recipeFrameState' =
          IF threw[p]
              THEN [recipeFrameState EXCEPT
                        !.craftingTree = ErrorTree(arg[p]),
                        !.treeOf = arg[p],
                        !.isReady = TRUE,
                        !.loading = FALSE,
                        !.loads[p] = "none"]
              ELSE [recipeFrameState EXCEPT
                        !.craftingTree = heap[ret[p]].val,
                        !.treeOf = arg[p],
                        !.loads[p] = "ready"]
    /\ UNCHANGED <<lib, selectedItem, elementNodeState, searchBarState>>

\* the timeout of lines 957-969 fires
ReadyTimeout(p) ==
    /\ Quiet
    /\ recipeFrameState.loads[p] = "ready"
    /\ recipeFrameState' =
          [recipeFrameState EXCEPT !.isReady = TRUE, !.loads[p] = "reset"]
    /\ UNCHANGED <<lib, selectedItem, elementNodeState, searchBarState>>

\* the timeout of lines 961-968 fires
ResetTimeout(p) ==
    /\ Quiet
    /\ recipeFrameState.loads[p] = "reset"
    /\ recipeFrameState' =
          [recipeFrameState EXCEPT
               !.renderComplete = TRUE, !.loading = FALSE, !.loads[p] = "none"]
    /\ UNCHANGED <<lib, selectedItem, elementNodeState, searchBarState>>

InitFrame == \E data \in FrameGraphs : InitWith(data, RECIPE_CACHE_SIZE)

NextFrame ==
    \/ \E item \in SelectItems : Select(item)
    \/ LoadTimeout
    \/ \E p \in Procs :
          \/ AnimationFrame(p)
          \/ LoadSteps(p)
          \/ LoadTreeResumes(p)
          \/ ReadyTimeout(p)
          \/ ResetTimeout(p)

SpecFrame == InitFrame /\ [][NextFrame]_vars

-----------------------------------------------------------------------------
(* Properties *)

RECURSIVE NodesOf(_)
\* all nodes of a tree
NodesOf(node) ==
    {node} \cup UNION {NodesOf(node.ingredients[i]) : i \in 1..Len(node.ingredients)}

RECURSIVE NoRepeatOnPath(_, _)
\* no node below (and including) node carries an originalId of `above` or of
\* one of its own ancestors
NoRepeatOnPath(node, above) ==
    /\ node.originalId \notin above
    /\ \A i \in 1..Len(node.ingredients) :
          NoRepeatOnPath(node.ingredients[i], above \cup {node.originalId})

RECURSIVE HasDepthLimitedLeaf(_)
HasDepthLimitedLeaf(node) ==
    \/ node.isDepthLimited
    \/ \E i \in 1..Len(node.ingredients) : HasDepthLimitedLeaf(node.ingredients[i])

\* the trees the program holds: those returned to a caller and the cached ones
Trees == {heap[o].val : o \in DOMAIN heap}

Returned(p) == pc[p] = "idle" /\ ret[p] # 0
RetVal(p) == heap[ret[p]].val

\* the step in which the call of caller p returns
Returns(p) == pc[p] = "loaded" /\ pc'[p] = "idle"

HasPrefix(s, prefix) == Len(s) >= Len(prefix) /\ SubSeq(s, 1, Len(prefix)) = prefix

\* C1: in every tree returned by buildCraftingTree, for cyclic input graphs
\* too, no root-to-leaf path holds two nodes with the same originalId.
C1_NoRepeatedOriginalId == \A t \in Trees : NoRepeatOnPath(t, {})

\* C2 as claimed: every node with isBasic = false has no ingredients or
\* exactly 2; a node with exactly 1 ingredient never occurs.
C2_ZeroOrTwoIngredients ==
    \A t \in Trees : \A n \in NodesOf(t) :
        ~n.isBasic => Len(n.ingredients) \in {0, 2}

RECURSIVE ArityExplained(_, _, _)
\* a non-basic node has at most 2 ingredients; where it has exactly 1, the
\* element has a candidate pair made of that child and of an id that names no
\* node or that is the element itself or one of its ancestors on the path
ArityExplained(idx, node, above) ==
    /\ ~node.isBasic =>
          \/ Len(node.ingredients) \in {0, 2}
          \/ /\ Len(node.ingredients) = 1
             /\ node.originalId \in DOMAIN idx.recipeIngredients
             /\ \E j \in 1..Len(idx.recipeIngredients[node.originalId]) :
                   LET set == IngredientSet(idx, idx.recipeIngredients[node.originalId][j])
                   IN /\ Len(set) = 2
                      /\ \E i \in 1..2 :
                            /\ set[i] = node.ingredients[1].originalId
                            /\ \/ ~OMapHas(idx.nodeMap, set[3 - i])
                               \/ set[3 - i] \in above \cup {node.originalId}
    /\ \A i \in 1..Len(node.ingredients) :
          ArityExplained(idx, node.ingredients[i], above \cup {node.originalId})

\* C2 as amended: every node with isBasic = false has 0, 1 or 2 ingredients,
\* and exactly 1 only where the other ingredient of the chosen pair was
\* dropped (it names no node, or the cycle guard rejected it).
C2_AtMostTwoIngredients == \A t \in Trees : ArityExplained(Idx, t, {})

C2_Witness ==
    \E p \in Procs :
        /\ Returned(p)
        /\ ~RetVal(p).isBasic
        /\ Len(RetVal(p).ingredients) = 1

\* C3: in every tree returned by buildCraftingTree, sentinel and
\* depth-limited nodes included, a node with isBasic = true has no
\* ingredients.
C3_BasicHasNoIngredients ==
    \A t \in Trees : \A n \in NodesOf(t) : n.isBasic => n.ingredients = <<>>

C3_Witness ==
    \E p \in Procs :
        /\ Returned(p)
        /\ ~RetVal(p).isBasic
        /\ HasDepthLimitedLeaf(RetVal(p))
        /\ \E n \in NodesOf(RetVal(p)) : n.isBasic /\ ~n.isDepthLimited

\* C4: for a name that exactly matches a node, whatever calls came before,
\* the returned root's originalId is the id of the node findElementByName
\* returns for the name.
C4_RootIsTheNamedNode ==
    [][\A p \in Procs :
          (Returns(p) /\ FindElementByName(nodeMap, arg[p]) # Null)
             => heap'[ret'[p]].val.originalId = FindElementByName(nodeMap, arg[p]).id]_vars

IsUnknownSentinel(node, targetName) ==
    /\ node.name = targetName
    /\ node.isBasic
    /\ node.ingredients = <<>>
    /\ HasPrefix(node.id, UnknownPrefix)

\* C5: for a name that no node matches exactly, whatever calls came before,
\* the call returns the unknown-element sentinel.
C5_UnknownNameGivesSentinel ==
    [][\A p \in Procs :
          (Returns(p) /\ FindElementByName(nodeMap, arg[p]) = Null)
             => IsUnknownSentinel(heap'[ret'[p]].val, arg[p])]_vars

\* C6: two calls for the same name on the same loaded graph, with any calls
\* in between, return structurally equal trees.
C6_SameNameSameTree ==
    [][\A p \in Procs :
          (Returns(p) /\ cachedDAGData # Null /\ arg[p] \in DOMAIN firstRet)
             => heap'[ret'[p]].val = firstRet[arg[p]]]_vars

\* C7: copy isolation: a returned tree is an object of its own, shared
\* neither with the cache nor with another returned tree, so that what a
\* caller writes to its tree reaches no cached tree and no later answer.
C7_CopyIsolation ==
    /\ \A p \in Procs : ret[p] # 0 =>
          /\ ret[p] \notin Range(recipeCache.cache)
          /\ \A q \in Procs \ {p} : ret[q] # ret[p]
    /\ \A key \in DOMAIN recipeCache.cache : ~heap[recipeCache.cache[key]].touched

C7_Witness ==
    \E p \in Procs : \E q \in Procs \ {p} :
        /\ Returned(p) /\ Returned(q)
        /\ arg[p] = arg[q]
        /\ built[p] /\ heap[ret[p]].touched
        /\ ~built[q] /\ ~heap[ret[q]].touched
        /\ RetVal(q) = RetVal(p)
        /\ LRUHas(recipeCache, CacheKey(arg[p]))
        /\ heap[recipeCache.cache[CacheKey(arg[p])]].val = RetVal(p)

\* the keys asked for after the latest access to key
After(order, key) ==
    SubSeq(order, (CHOOSE i \in 1..Len(order) : order[i] = key) + 1, Len(order))

\* C8: once the cache has been filled beyond its capacity with distinct
\* names since a key was last asked for, asking for that key again is a miss
\* and runs buildTree again.
C8_EvictedKeyIsRebuilt ==
    [][\A p \in Procs :
          (/\ Returns(p)
           /\ \E i \in 1..Len(recency) : recency[i] = CacheKey(arg[p])
           /\ Len(After(recency, CacheKey(arg[p]))) >= recipeCache.maxSize)
             => built'[p]]_vars

C8_Witness ==
    /\ Returned(1)
    /\ again[1]
    /\ built[1]
    /\ Len(recency) > recipeCache.maxSize
    /\ arg[1] = NameN(1)

\* the cached keys in the order of their latest access
Cached(order, c) == SelectSeq(order, LAMBDA k : LRUHas(c, k))

\* C9: a key is dropped only when a new key is stored into a full cache, one
\* key at a time, and the key dropped is the one whose latest access (a hit
\* of get, or a set) is the oldest; a hit and a set on an existing key make
\* the key the most recently used and drop nothing.
C9_LeastRecentlyUsedIsEvicted ==
    [][/\ recipeCache'.keys = Cached(recency', recipeCache')
       /\ (dropped' # {} /\ DOMAIN recipeCache'.cache # {}) =>
             /\ dropped' = {Head(Cached(recency, recipeCache))}
             /\ Cardinality(DOMAIN recipeCache.cache) = recipeCache.maxSize
             /\ DOMAIN recipeCache'.cache \ DOMAIN recipeCache.cache # {}]_vars

C9_Witness ==
    /\ dropped # {}
    /\ recipeCache.maxSize = 2
    /\ Len(recipeCache.keys) = 2
    /\ Len(recency) = 3
    /\ recency[1] \in dropped

\* C10: the tree cache never holds more than maxSize entries.
C10_CacheWithinCapacity ==
    /\ Cardinality(DOMAIN recipeCache.cache) <= recipeCache.maxSize
    /\ Len(recipeCache.keys) <= recipeCache.maxSize

C10_Witness ==
    /\ Cardinality(DOMAIN recipeCache.cache) = RECIPE_CACHE_SIZE
    /\ Len(recency) > RECIPE_CACHE_SIZE
    /\ dropped # {}

\* the stepwise run of buildTree ends with the result the recursive definition
\* gives, and never holds more frames than the depth limit admits
BuildTreeAgrees ==
    /\ Len(stack) <= MAX_TREE_DEPTH + 1
    /\ \A p \in Procs :
          (pc[p] = "building" /\ stack = <<>>) =>
              LET r == BuildTree(Idx, FindElementByName(nodeMap, arg[p]).id, {}, 0,
                                 MAX_TREE_DEPTH, 0)
              IN /\ bres.ok = r.ok
                 /\ bres.threw = r.threw
                 /\ bres.node = r.node
                 /\ bres.threw \/ bres.ctr = r.ctr

\* C11: tree construction terminates for every finite input graph, cyclic
\* and self-referential ones included: every call of buildTree that has been
\* started returns (or raises) after finitely many recursive calls.
C11_BuildTreeReturns == \A p \in Procs : (pc[p] = "building") ~> (pc[p] = "idle")

C11_Witness ==
    /\ Returned(1)
    /\ built[1]
    /\ dagFile \in {CycleGraph(n) : n \in 1..MaxCycle}
    /\ arg[1] = NameE(0)
    /\ ~RetVal(1).isBasic

RECURSIVE DepthLimitedDepths(_, _)
\* the depths (root: depth) at which the tree holds a node with
\* isDepthLimited = true
DepthLimitedDepths(node, depth) ==
    (IF node.isDepthLimited THEN {depth} ELSE {})
        \cup UNION {DepthLimitedDepths(node.ingredients[i], depth + 1) :
                        i \in 1..Len(node.ingredients)}

\* the head of the chain of ChainLen nested recipes is being resolved
ChainHead(p) == dagFile = ChainGraph(ChainLen) /\ arg[p] = NameE(1)

\* C12 as claimed: the tree returned for the head of a chain of 20 nested
\* recipes holds a leaf with isDepthLimited = true at depth MAX_TREE_DEPTH.
C12_DepthLimitedAtMaxDepth ==
    \A p \in Procs :
        (Returned(p) /\ ChainHead(p)) =>
            MAX_TREE_DEPTH \in DepthLimitedDepths(RetVal(p), 0)

\* C12 as amended: resolving the head of a chain of 20 nested recipes
\* terminates, and the returned tree holds a leaf with isDepthLimited = true
\* one level below the maximum depth, at depth MAX_TREE_DEPTH + 1.
C12_ChainIsDepthLimited ==
    \A p \in Procs :
        (pc[p] = "building" /\ ChainHead(p)) ~>
            (/\ Returned(p)
             /\ ChainHead(p)
             /\ DepthLimitedDepths(RetVal(p), 0) = {MAX_TREE_DEPTH + 1})

C12_Witness ==
    /\ Returned(1)
    /\ ChainHead(1)
    /\ built[1]
    /\ DepthLimitedDepths(RetVal(1), 0) = {MAX_TREE_DEPTH + 1}
    /\ Cardinality(NodesOf(RetVal(1))) = 2 * MAX_TREE_DEPTH + 3

\* the element id has exactly one recipe, a pair of two ingredients one of
\* which is the element itself
SelfReferential(idx, id) ==
    /\ id \in DOMAIN idx.recipeResults
    /\ Len(idx.recipeResults[id]) = 1
    /\ PairKey(idx.recipeResults[id][1]) \in DOMAIN idx.edgeMap
    /\ Len(idx.edgeMap[PairKey(idx.recipeResults[id][1])]) = 2
    /\ \E i \in 1..2 : idx.edgeMap[PairKey(idx.recipeResults[id][1])][i] = id

\* the ingredients of that recipe other than one occurrence of the element
OtherIngredient(idx, id) ==
    LET set == idx.edgeMap[PairKey(idx.recipeResults[id][1])]
    IN IF set[1] = id THEN set[2] ELSE set[1]

\* request p has returned the tree that buildTree built for a node whose only
\* recipe contains the node
SelfReferentialAnswer(p) ==
    /\ Returned(p)
    /\ built[p]
    /\ FindElementByName(nodeMap, arg[p]) \notin {Null, Thrown}
    /\ SelfReferential(Idx, FindElementByName(nodeMap, arg[p]).id)

-----------------------------------------------------------------------------
(* Missing and malformed data.                                              *)

\* C14: for every loaded graph, also one with a node without properties or
\* without a name, resolving a name returns a tree and never throws.
C14_NeverRaises ==
    \A p \in Procs : ~threw[p]

\* C15: under any interleaving of resolve calls the index is built once:
\* once a load has completed (cachedDAGData is set and processDAGData has
\* run), no later step modifies the node table, the pair ingredient lists,
\* the result recipe lists or the result ingredient sets.
C15_IndexBuiltOnce ==
    [][cachedDAGData # Null => index' = index]_vars

\* a request of caller p has come back while no load had succeeded: its own
\* load failed
CameBackFromFailedLoad(p) == Returned(p) /\ cachedDAGData = Null

\* C16 as claimed: after a graph-load failure no later request attempts the
\* load again.
C16_FailedLoadNotRetried ==
    [][(\E p \in Procs : CameBackFromFailedLoad(p))
          => \A q \in Procs : pc'[q] = "fetch" => pc[q] = "fetch"]_vars

\* C16 as amended: a failed load is not remembered.  Only successfully
\* parsed data is ever kept; every request that starts while no load has
\* succeeded attempts the load again; and as long as no load has succeeded
\* the index is empty (zero nodes) and every resolution returns the
\* unknown-element fallback without raising.
C16_FailedLoadIsRetried ==
    [][/\ cachedDAGData' \in {Null, dagFile}
       /\ cachedDAGData = Null =>
             /\ index = <<<<>>, EmptyMap, EmptyMap, EmptyMap>>
             /\ \A p \in Procs :
                   /\ (pc[p] = "idle" /\ pc'[p] # "idle") => pc'[p] = "fetch"
                   /\ Returns(p) =>
                         /\ ~threw'[p]
                         /\ IsUnknownSentinel(heap'[ret'[p]].val, arg[p])]_vars

\* one request came back from a failed load with the fallback for the name
\* of a node, and a request that loaded again has resolved that name
C16_Witness ==
    \E p, q \in Procs :
        /\ Returned(p) /\ Returned(q)
        /\ arg[p] = arg[q]
        /\ IsUnknownSentinel(RetVal(p), arg[p])
        /\ cachedDAGData # Null
        /\ FindElementByName(nodeMap, arg[q]) \notin {Null, Thrown}
        /\ RetVal(q).originalId = FindElementByName(nodeMap, arg[q]).id

-----------------------------------------------------------------------------
(* Recipes as the input graph states them.                                  *)

\* the pairs with a RESULTS_IN edge to resultId, in the order of the edges
PairsInto(data, resultId) ==
    LET edges == SelectSeq(data.relationships,
                           LAMBDA rel : rel.type = "RESULTS_IN" /\ rel.end = resultId)
    IN [i \in 1..Len(edges) |-> edges[i].start]

\* the ingredients with a PART_OF edge to pairId, in the order of the edges
PartsOf(data, pairId) ==
    LET edges == SelectSeq(data.relationships,
                           LAMBDA rel : rel.type = "PART_OF" /\ rel.end = pairId)
    IN [i \in 1..Len(edges) |-> edges[i].start]

InputNodeIds(data) == {data.nodes[i].id : i \in 1..Len(data.nodes)}
InputNode(data, id) == data.nodes[CHOOSE i \in 1..Len(data.nodes) : data.nodes[i].id = id]

\* the node is not basic and has exactly one recipe, of two ingredients that
\* are both basic nodes of the graph
SteamLike(data, node) ==
    /\ ~IsBasicElement(node)
    /\ Len(PairsInto(data, node.id)) = 1
    /\ LET parts == PartsOf(data, PairsInto(data, node.id)[1])
       IN /\ Len(parts) = 2
          /\ \A i \in 1..2 : /\ parts[i] \in InputNodeIds(data)
                             /\ IsBasicElement(InputNode(data, parts[i]))

\* C17: an element like Steam (not basic, one recipe, both ingredients basic
\* nodes of the graph) resolves to a root with isBasic = false and exactly
\* two ingredients, the two basic leaves in the order of their PART_OF
\* relationships.
C17_SteamLikeResolvesToTwoLeaves ==
    [][\A p \in Procs :
          LET node == FindElementByName(nodeMap, arg[p])
          IN (/\ Returns(p)
              /\ node \notin {Null, Thrown}
              /\ SteamLike(dagFile, node))
             => LET root == heap'[ret'[p]].val
                    parts == PartsOf(dagFile, PairsInto(dagFile, node.id)[1])
                IN /\ ~root.isBasic
                   /\ Len(root.ingredients) = 2
                   /\ \A i \in 1..2 :
                         /\ i <= Len(root.ingredients)
                         /\ root.ingredients[i].originalId = parts[i]
                         /\ root.ingredients[i].isBasic
                         /\ root.ingredients[i].ingredients = <<>>]_vars

-----------------------------------------------------------------------------
LacksArray(data) == "nodes" \notin DOMAIN data \/ "relationships" \notin DOMAIN data

\* the same graph with each missing array present but empty
WithArrays(data) ==
    [nodes |-> IF "nodes" \in DOMAIN data THEN data.nodes ELSE <<>>,
     relationships |-> IF "relationships" \in DOMAIN data
                       THEN data.relationships ELSE <<>>]

\* C18: when the loaded graph object lacks its nodes array or its
\* relationships array, the request that loads it and every later request
\* return a tree, and the tree is the one the same request (after the same
\* earlier requests, so with the same cached trees) gets on the same graph
\* with the missing array present but empty.
C18_MissingArrayIsEmpty ==
    [][\A p \in Procs :
          (Returns(p) /\ cachedDAGData # Null /\ LacksArray(dagFile))
             => LET out == AfterLoad(ProcessDAGData(EmptyIndex, WithArrays(dagFile)),
                                     recipeCache, heap, idCounter, arg[p])
                IN /\ ~threw'[p]
                   /\ ~out.threw
                   /\ heap'[ret'[p]].val = out.heap[out.obj].val]_vars

\* Steam was resolved on the graph without relationships array: it is the
\* node of the graph, without ingredients
C18_Witness ==
    /\ cachedDAGData = NoRelationshipsGraph
    /\ Returned(1)
    /\ arg[1] = Steam
    /\ RetVal(1).originalId = 3
    /\ ~RetVal(1).isBasic
    /\ RetVal(1).ingredients = <<>>

-----------------------------------------------------------------------------
\* a relationship of an unknown type or without start or end
Ignorable(rel) ==
    \/ rel.type \notin {"PART_OF", "RESULTS_IN"}
    \/ rel.start = Undefined
    \/ rel.end = Undefined

WithoutIgnorable(data) ==
    [data EXCEPT !.relationships = SelectSeq(@, LAMBDA rel : ~Ignorable(rel))]

\* per result id, the ingredient arrays of its derived recipe set
RecipeSetsOf(idx) ==
    [id \in DOMAIN idx.recipeIngredients |->
        [j \in 1..Len(idx.recipeIngredients[id]) |->
            IngredientSet(idx, idx.recipeIngredients[id][j])]]

\* C19: relationships of an unknown type and relationships without start or
\* without end are ignored by indexing: the recipe sets derived from a graph
\* are those derived from the graph without these relationships.
C19_IgnorableRelationshipsChangeNothing ==
    (cachedDAGData # Null /\ ~LacksArray(dagFile))
        => RecipeSetsOf(Idx)
              = RecipeSetsOf(ProcessDAGData(EmptyIndex, WithoutIgnorable(dagFile)))

-----------------------------------------------------------------------------
\* the ids that a RESULTS_IN edge of the graph ends in
ResultIds(data) ==
    {data.relationships[i].end :
        i \in {j \in 1..Len(data.relationships) :
                  data.relationships[j].type = "RESULTS_IN"}}

\* the recipe set derived for a result id; none is derived for an id
\* without an entry in recipeIngredients
DerivedRecipeSet(id) ==
    IF id \in DOMAIN recipeIngredients THEN RecipeSetsOf(Idx)[id] ELSE <<>>

\* the ingredients of the pairs into resultId that have exactly two
\* PART_OF ingredients, in the order of the RESULTS_IN edges
TwoIngredientPairs(data, resultId) ==
    LET pairs == SelectSeq(PairsInto(data, resultId),
                           LAMBDA pairId : Len(PartsOf(data, pairId)) = 2)
    IN [j \in 1..Len(pairs) |-> PartsOf(data, pairs[j])]

Indexed == cachedDAGData # Null /\ ~LacksArray(dagFile)

\* C20 as claimed: after indexing, the recipe set derived for every result
\* id holds exactly the pairs with a RESULTS_IN edge to it that have exactly
\* two PART_OF ingredients, in the order of the RESULTS_IN edges.
C20_RecipeSetOfEveryResultId ==
    Indexed =>
        \A id \in ResultIds(dagFile) :
            DerivedRecipeSet(id) = TwoIngredientPairs(dagFile, id)

\* C20 as amended: after indexing, a recipe set is derived for exactly the
\* result ids that are ids of nodes; it holds exactly the pairs with a
\* RESULTS_IN edge to the result that have exactly two PART_OF ingredients,
\* in the order of the RESULTS_IN edges, so every candidate has exactly two
\* ingredient ids.
C20_RecipeSetOfEveryResultNode ==
    Indexed =>
        /\ DOMAIN recipeIngredients = ResultIds(dagFile) \cap InputNodeIds(dagFile)
        /\ \A id \in DOMAIN recipeIngredients :
              /\ DerivedRecipeSet(id) = TwoIngredientPairs(dagFile, id)
              /\ \A j \in 1..Len(DerivedRecipeSet(id)) :
                    Len(DerivedRecipeSet(id)[j]) = 2

\* the graph whose second pair has three ingredients is indexed: X keeps
\* its first and third pair, in this order
C20_Witness ==
    /\ cachedDAGData = DroppedPairGraph
    /\ Len(PairsInto(dagFile, 1)) = 3
    /\ DerivedRecipeSet(1) = <<<<3, 4>>, <<4, 3>>>>

-----------------------------------------------------------------------------
(* Sentinel ids and the cache.                                              *)

\* C21: the root id of a returned tree begins with 'unknown-' if and only if
\* the requested name was not found in the graph, and the tree of an element
\* that exists in the graph carries neither the 'unknown-' nor the 'basic-'
\* prefix.
C21_UnknownPrefixIffNotFound ==
    [][\A p \in Procs :
          (Returns(p) /\ ~threw'[p])
             => LET root == heap'[ret'[p]].val
                    found == FindElementByName(nodeMap, arg[p]) # Null
                IN /\ HasPrefix(root.id, UnknownPrefix) <=> ~found
                   /\ found => ~HasPrefix(root.id, BasicPrefix)]_vars

NoDuplicates(seq) == \A i, j \in 1..Len(seq) : i # j => seq[i] # seq[j]

\* C22: under any interleaving of resolve calls, two calls for the same key
\* included, the bookkeeping of the cache is intact: the recency list holds
\* no key twice and holds exactly the keys of the entry map.
C22_CacheBookkeepingIntact ==
    /\ NoDuplicates(recipeCache.keys)
    /\ Range(recipeCache.keys) = DOMAIN recipeCache.cache

\* two interleaved calls for the same key have both returned: one built the
\* tree and stored it, the other was served from the cache
C22_Witness ==
    \E p, q \in Procs :
        /\ Returned(p) /\ Returned(q)
        /\ CacheKey(arg[p]) = CacheKey(arg[q])
        /\ built[p] /\ ~built[q]
        /\ RetVal(p) = RetVal(q)
        /\ recipeCache.keys = <<CacheKey(arg[p])>>

\* C23: a tree built for a name that matched a node is in the cache under
\* the lowercased name when it is returned; no step other than the return
\* of a call changes the cache; and a call that finds its lowercased name
\* in the cache returns the cached tree without running buildTree.  So the
\* same name requested again right after a build is served from the cache.
C23_BuiltTreeIsCached ==
    [][/\ (\A p \in Procs : ~Returns(p)) => recipeCache' = recipeCache
       /\ \A p \in Procs :
             LET key == ToLowerCase(arg[p])
             IN /\ (Returns(p) /\ built'[p] /\ ~threw'[p])
                   => /\ LRUHas(recipeCache', key)
                      /\ heap'[recipeCache'.cache[key]].val = heap'[ret'[p]].val
                /\ (Returns(p) /\ LRUHas(recipeCache, key))
                   => /\ ~built'[p]
                      /\ heap'[ret'[p]].val = heap[recipeCache.cache[key]].val]_vars

\* a name that matched a node was requested again and served from the cache
C23_Witness ==
    /\ Returned(1)
    /\ again[1]
    /\ ~built[1]
    /\ LRUHas(recipeCache, ToLowerCase(arg[1]))
    /\ FindElementByName(nodeMap, arg[1]) \notin {Null, Thrown}
    /\ RetVal(1).originalId = FindElementByName(nodeMap, arg[1]).id
    /\ RetVal(1).ingredients # <<>>

-----------------------------------------------------------------------------
(* The steps of buildTree.                                                  *)

\* the running call is about to call buildTree for the next ingredient of
\* its candidate, and the step is that call
CallsChild ==
    /\ pc[1] = "building"
    /\ stack # <<>>
    /\ ~LoopOver(Idx, Top)
    /\ Top.j <= Len(Candidate(Idx, Top))
    /\ vars' # vars

ChildId == Candidate(Idx, Top)[Top.j]

\* C24: a call of buildTree with depth greater than MAX_TREE_DEPTH for an
\* element id of the node table returns a leaf with isDepthLimited = true,
\* isBasic = true, originalId = elementId and no ingredients, and makes no
\* recursive call.
C24_DepthGuardReturnsLeaf ==
    [][(/\ CallsChild
        /\ ChildArgs(Top).depth > MAX_TREE_DEPTH
        /\ OMapHas(nodeMap, ChildId))
          => /\ Len(stack') = Len(stack)
             /\ LET got == stack'[Len(stack)].childTrees
                IN /\ Len(got) = Len(Top.childTrees) + 1
                   /\ got[Len(got)].isDepthLimited
                   /\ got[Len(got)].isBasic
                   /\ got[Len(got)].originalId = ChildId
                   /\ got[Len(got)].ingredients = <<>>]_vars

\* C25: isDepthLimited = true marks only truncated recursion: at whatever
\* depth, no node of a returned tree that stands for a basic element (name
\* in BASIC_ELEMENTS or depth attribute 0) or for an element without a
\* recipe set carries it.
C25_DepthLimitedOnlyWhereTruncated ==
    \A p \in Procs :
        Returned(p) =>
            \A n \in NodesOf(RetVal(p)) :
                n.isDepthLimited =>
                    /\ ~IsBasicElement(OMapGet(nodeMap, n.originalId))
                    /\ n.originalId \in DOMAIN recipeIngredients

\* the running call has evaluated its candidate, and the step is the
\* comparison with the best so far
ComparesCandidate ==
    /\ pc[1] = "building"
    /\ stack # <<>>
    /\ ~LoopOver(Idx, Top)
    /\ Top.j > Len(Candidate(Idx, Top))
    /\ vars' # vars

\* the running call has left its candidate loop, and the step is its return
\* of a node (and not an exception)
ReturnsNode ==
    /\ pc[1] = "building"
    /\ stack # <<>>
    /\ LoopOver(Idx, Top)
    /\ vars' # vars
    /\ (stack' # <<>> \/ ~bres'.threw)

\* the node that the step ReturnsNode hands to the caller
NodeReturned ==
    IF Len(stack) = 1 THEN bres'.node
    ELSE LET got == stack'[Len(stack) - 1].childTrees IN got[Len(got)]

OriginalIds(trees) == [k \in 1..Len(trees) |-> trees[k].originalId]

\* the candidates a frame has evaluated, and the elements that candidate c
\* of the frame resolves
Evaluated(f) == 1..(f.i - 1)
Resolved(f, c) ==
    OriginalIds(BuildChildren(Idx, IngredientSet(Idx, f.sets[c]), 1, f.visited,
                              f.depth + 1, MAX_TREE_DEPTH, 0).trees)

\* the earliest evaluated candidate that resolves the most children
Winner(f) ==
    CHOOSE c \in Evaluated(f) :
        /\ \A d \in Evaluated(f) : Len(Resolved(f, d)) <= Len(Resolved(f, c))
        /\ \A d \in Evaluated(f) : d < c => Len(Resolved(f, d)) < Len(Resolved(f, c))

\* C26: the ingredients of the node returned for an element are the
\* resolved children of the earliest evaluated candidate that resolves the
\* most children, and a candidate replaces the best so far only when it
\* resolves strictly more children.
C26_EarliestBestCandidateWins ==
    [][/\ ComparesCandidate =>
             LET new == stack'[Len(stack)].best
             IN IF Len(Top.childTrees) > Len(Top.best)
                THEN new = Top.childTrees ELSE new = Top.best
       /\ (ReturnsNode /\ Evaluated(Top) # {}) =>
             OriginalIds(NodeReturned.ingredients) = Resolved(Top, Winner(Top))]_vars

\* X of the graph with the two tied recipes has been resolved: its single
\* ingredient is B, the child of the earlier of the two
C26_Witness ==
    /\ cachedDAGData = SelectionGraph
    /\ Returned(1)
    /\ arg[1] = NameX
    /\ OriginalIds(RetVal(1).ingredients) = <<3>>

\* C27: once a candidate of an element has resolved both of its
\* ingredients, no later candidate of that element is evaluated: the call
\* makes no further recursive call.
C27_EarlyStop ==
    [][CallsChild => \A c \in Evaluated(Top) : Len(Resolved(Top, c)) < 2]_vars

\* X of the graph whose second recipe resolves both ingredients has been
\* resolved: four ids were generated (B; B, Y; X), none for the third recipe
C27_Witness ==
    /\ cachedDAGData = EarlyStopGraph
    /\ Returned(1)
    /\ arg[1] = NameX
    /\ built[1]
    /\ OriginalIds(RetVal(1).ingredients) = <<3, 4>>
    /\ Len(recipeIngredients[1]) = 3
    /\ idCounter = 4

\* C28: when an element has more than five candidates only the first three
\* are evaluated, and no element has more than five candidates evaluated:
\* every recursive call is made for one of the first three candidates when
\* there are more than five, and for one of the first five in any case.
C28_CandidateCap ==
    [][CallsChild =>
          /\ Len(Top.sets) > 5 => Top.i <= 3
          /\ Top.i <= 5]_vars

\* buildCraftingTree calls buildTree for the node found by name
StartsBuild == pc[1] = "loaded" /\ pc'[1] = "building"

\* the element is basic, or no recipe set exists for its id
BasicOrWithoutRecipeSet(elementId) ==
    \/ IsBasicElement(OMapGet(nodeMap, elementId))
    \/ elementId \notin DOMAIN recipeIngredients

\* C29: for an element of the graph that is basic (name in BASIC_ELEMENTS or
\* depth attribute 0) or has no recipe set, buildTree returns a basic leaf,
\* a node with isBasic = true and no ingredients, and evaluates no
\* candidate.
C29_BasicOrNoRecipeGivesBasicLeaf ==
    [][/\ (/\ StartsBuild
           /\ BasicOrWithoutRecipeSet(FindElementByName(nodeMap, arg[1]).id))
          => /\ stack' = <<>>
             /\ ~bres'.threw
             /\ bres'.node.isBasic
             /\ bres'.node.ingredients = <<>>
       /\ (/\ CallsChild
           /\ OMapHas(nodeMap, ChildId)
           /\ BasicOrWithoutRecipeSet(ChildId))
          => /\ Len(stack') = Len(stack)
             /\ LET got == stack'[Len(stack)].childTrees
                IN /\ Len(got) = Len(Top.childTrees) + 1
                   /\ got[Len(got)].originalId = ChildId
                   /\ got[Len(got)].isBasic
                   /\ got[Len(got)].ingredients = <<>>]_vars

\* the running call has left its candidate loop, and the step ends the call
LeavesLoop ==
    /\ pc[1] = "building"
    /\ stack # <<>>
    /\ LoopOver(Idx, Top)
    /\ vars' # vars

\* C30: when an element has a recipe set and no evaluated candidate resolves
\* a child (the ingredients are dropped by the cycle guard or name no node,
\* or the recipe set is empty because all pairs were malformed), buildTree
\* does not fail: it returns a leaf for the element with isBasic = true and
\* no ingredients.
C30_NoResolvedChildGivesLeaf ==
    [][(LeavesLoop /\ \A c \in Evaluated(Top) : Resolved(Top, c) = <<>>)
          => /\ ReturnsNode
             /\ NodeReturned.originalId = Top.elementId
             /\ NodeReturned.isBasic
             /\ NodeReturned.ingredients = <<>>]_vars

-----------------------------------------------------------------------------
(* The visited set, the index read by a resolution, and the ids.            *)

\* the elements of the calls that are running: the frames below and
\* including the n-th
AncestorIds(n) == {stack[k].elementId : k \in 1..n}

\* a tree without its render ids
RECURSIVE Shape(_)
Shape(node) ==
    [node EXCEPT !.id = <<>>,
                 !.ingredients = [k \in 1..Len(node.ingredients) |->
                                     Shape(node.ingredients[k])]]

\* C31: at every call of buildTree the visited set handed to the call holds
\* exactly the element ids of the calls it is nested in, whatever siblings
\* and earlier candidates were explored before; and the tree a call returns
\* is, up to the render ids, the tree of its element under these ancestors
\* alone.
C31_VisitedIsTheAncestors ==
    [][/\ CallsChild => ChildArgs(Top).visited = AncestorIds(Len(stack))
       /\ ReturnsNode =>
             Shape(NodeReturned)
                = Shape(BuildTree(Idx, Top.elementId, AncestorIds(Len(stack) - 1),
                                  Top.depth, MAX_TREE_DEPTH, 0).node)]_vars

\* a nested call is about to resolve the second ingredient of its second
\* candidate: a sibling and an earlier candidate have been explored
C31_Witness ==
    /\ pc[1] = "building"
    /\ Len(stack) >= 2
    /\ ~LoopOver(Idx, Top)
    /\ Top.i = 2
    /\ Top.j = 2
    /\ Top.childTrees # <<>>
    /\ Top.visited = AncestorIds(Len(stack))

\* the tables of the completely indexed graph
CompleteIndex(data) ==
    ProcessDAGData(EmptyIndex,
                   [data EXCEPT !.relationships = SelectSeq(@, LAMBDA rel : rel # Null)])

\* C32: whenever a resolution runs (findElementByName, buildTree), the
\* tables are those of no graph at all or those of the complete loaded
\* graph, also when indexing stopped on an exception and under any
\* interleaving of requests.
C32_NoHalfBuiltIndex ==
    \A p \in Procs :
        pc[p] = "loaded" => Idx = EmptyIndex \/ Idx = CompleteIndex(dagFile)

\* C33: under any interleaving of buildCraftingTree calls a freshly built
\* tree numbers its node ids from 1: it is the tree that buildTree builds
\* with the counter at 0, whatever other requests are in flight.
C33_FreshTreeNumbersFromOne ==
    [][\A p \in Procs :
          (Returns(p) /\ built'[p] /\ ~threw'[p])
             => heap'[ret'[p]].val
                   = BuildTree(Idx, FindElementByName(nodeMap, arg[p]).id, {}, 0,
                               MAX_TREE_DEPTH, 0).node]_vars

\* the nodes of a tree, the root first
RECURSIVE Preorder(_)
Preorder(node) ==
    <<node>> \o Concat([k \in 1..Len(node.ingredients) |-> Preorder(node.ingredients[k])])

\* C34: within one tree returned by buildCraftingTree, built fresh or served
\* from the cache, the render ids of the nodes are pairwise distinct, also
\* when an element occurs several times in the tree.
C34_RenderIdsDistinct ==
    \A p \in Procs :
        Returned(p) =>
            LET nodes == Preorder(RetVal(p))
            IN \A i, j \in 1..Len(nodes) : i # j => nodes[i].id # nodes[j].id

\* a tree in which an element occurs twice has been served from the cache
C34_Witness ==
    /\ Returned(1)
    /\ ~built[1]
    /\ LET nodes == Preorder(RetVal(1))
       IN \E i, j \in 1..Len(nodes) :
             i # j /\ nodes[i].originalId = nodes[j].originalId

\* a mouseup schedules the click
SchedulesClick ==
    elementNodeState'.clickTimeouts > elementNodeState.clickTimeouts

\* C35: a mouseup on a tree node leads to navigation (onElementClick) only if
\* the pointer was never farther than the 5-pixel threshold from the position
\* of the mousedown; a gesture that took the pointer farther is a drag and
\* leads to no navigation.
C35_ClickOnlyWithoutDrag ==
    [][SchedulesClick => ~elementNodeState.movedAway]_vars

\* the callback of the debounce timer runs
DebounceRuns ==
    /\ searchBarState.debounceTimer # Null
    /\ searchBarState'.debounceTimer = Null

\* C36: at most one debounce timer is pending, and a search started by typing
\* runs only for the most recent value of the input, so the results shown
\* never belong to a value older than the current one.
C36_SearchIsOfCurrentValue ==
    [][(DebounceRuns /\ searchBarState'.results.items # <<>>)
          => searchBarState'.results.query = searchBarState'.searchTerm]_vars

RECURSIVE LeafDepths(_, _)
\* the depths (root: depth) of the leaves of a tree
LeafDepths(node, depth) ==
    IF node.ingredients = <<>>
        THEN {depth}
        ELSE UNION {LeafDepths(node.ingredients[i], depth + 1) :
                        i \in 1..Len(node.ingredients)}

\* C37: every tree returned by buildCraftingTree has at most
\* MAX_TREE_DEPTH + 1 = 7 edges on any path from the root to a leaf, and a
\* leaf with isDepthLimited = true occurs only at depth exactly 7.
C37_HeightBounded ==
    \A p \in Procs :
        Returned(p) =>
            /\ \A d \in LeafDepths(RetVal(p), 0) : d <= MAX_TREE_DEPTH + 1
            /\ DepthLimitedDepths(RetVal(p), 0) \subseteq {MAX_TREE_DEPTH + 1}

\* a tree built on a recipe cycle has leaves above the limit and a
\* depth-limited leaf at depth 7
C37_Witness ==
    /\ Returned(1)
    /\ built[1]
    /\ \E n \in 1..MaxCycle : dagFile = CycleGraph(n)
    /\ MAX_TREE_DEPTH + 1 \in DepthLimitedDepths(RetVal(1), 0)
    /\ \E d \in LeafDepths(RetVal(1), 0) : d < MAX_TREE_DEPTH

\* nothing that RecipeFrame started is still under way
Settled ==
    /\ selectedItem # Null
    /\ recipeFrameState.timeoutId = Null
    /\ recipeFrameState.frames = <<>>
    /\ \A p \in Procs : pc[p] = "idle" /\ recipeFrameState.loads[p] = "none"

ReturnsUnknownFallback(p) ==
    /\ Returns(p)
    /\ ~threw'[p]
    /\ ~built'[p]
    /\ ~LRUHas(recipeCache, CacheKey(arg[p]))
    /\ IsUnknownSentinel(heap'[ret'[p]].val, arg[p])

\* the trees in the cache, by key
CachedTrees(c, h) == [k \in DOMAIN c.cache |-> h[c.cache[k]].val]

\* C39: a call that ends in the unknown-element fallback leaves the tree
\* cache unchanged, with the same entries in the same recency order: the
\* fallback is not cached and evicts or reorders nothing.
C39_FallbackLeavesCache ==
    [][\A p \in Procs :
          ReturnsUnknownFallback(p)
             => /\ recipeCache' = recipeCache
                /\ CachedTrees(recipeCache', heap') = CachedTrees(recipeCache, heap)
                /\ recency' = recency]_vars

\* the fallback has been returned while a tree was in the cache
C39_Witness ==
    /\ Returned(1)
    /\ ~built[1]
    /\ IsUnknownSentinel(RetVal(1), arg[1])
    /\ DOMAIN recipeCache.cache # {}
    /\ CacheKey(arg[1]) \notin DOMAIN recipeCache.cache

\* the pairs <<ingredient, result>> of the input graph: ingredient has a
\* PART_OF edge to a pair that has a RESULTS_IN edge to result
IngredientEdges(data) ==
    LET rels == data.relationships
    IN {<<rels[ab[1]].start, rels[ab[2]].end>> :
          ab \in {cd \in (1..Len(rels)) \X (1..Len(rels)) :
                     /\ rels[cd[1]].type = "PART_OF"
                     /\ rels[cd[2]].type = "RESULTS_IN"
                     /\ rels[cd[1]].end = rels[cd[2]].start}}

RECURSIVE OnCycles(_, _)
\* what is left of ids when the ids that are nobody's ingredient within
\* ids are taken away again and again: empty exactly when no cycle goes
\* through ids
OnCycles(ids, edges) ==
    LET used == {id \in ids : \E e \in edges : e[1] = id /\ e[2] \in ids}
    IN IF used = ids THEN ids ELSE OnCycles(used, edges)

Acyclic(data) ==
    LET edges == IngredientEdges(data)
    IN OnCycles({e[1] : e \in edges} \cup {e[2] : e \in edges}, edges) = {}

\* every ingredient of every pair of two ingredients is the id of a node
IngredientsExist(data) ==
    \A i \in 1..Len(data.relationships) :
        LET rel == data.relationships[i]
        IN (rel.type = "RESULTS_IN" /\ Len(PartsOf(data, rel.start)) = 2)
              => \A k \in 1..2 : PartsOf(data, rel.start)[k] \in InputNodeIds(data)

\* C40: on an acyclic input graph in which every ingredient id of every
\* two-ingredient pair names a node, every node with ingredients of a
\* returned tree that did not reach the depth limit has exactly 2 of them;
\* on any graph a node with one ingredient comes only from a cycle or from
\* an ingredient that names no node.
C40_TwoIngredientsUnlessCycleOrMissing ==
    \A p \in Procs :
        Returned(p) =>
            /\ (/\ Acyclic(dagFile)
                /\ IngredientsExist(dagFile)
                /\ ~HasDepthLimitedLeaf(RetVal(p)))
                  => \A n \in NodesOf(RetVal(p)) :
                         n.ingredients # <<>> => Len(n.ingredients) = 2
            /\ \A n \in NodesOf(RetVal(p)) :
                  Len(n.ingredients) = 1
                     => ~Acyclic(dagFile) \/ ~IngredientsExist(dagFile)

\* a tree with a nested recipe was returned for an acyclic graph without
\* missing ingredients
C40_Witness ==
    /\ Returned(1)
    /\ built[1]
    /\ Acyclic(dagFile)
    /\ IngredientsExist(dagFile)
    /\ ~HasDepthLimitedLeaf(RetVal(1))
    /\ \E i \in 1..Len(RetVal(1).ingredients) :
          Len(RetVal(1).ingredients[i].ingredients) = 2

====
